---------------------------- MODULE Spec2Model ----------------------------
(***************************************************************************)
(* Social-Graph-Crawler: the crawl engine (BaseCrawler and the Reddit,     *)
(* GitHub and Wikipedia crawlers), the CrawlJob lifecycle, the crawl       *)
(* trigger / cancel endpoints and the node / edge store they write to.     *)
(*                                                                         *)
(* Conventions                                                             *)
(*  - A crawl() call is a sequence of steps, one per awaited operation     *)
(*    (a fetch, a node upsert, an edge upsert, a job update, a commit).    *)
(*    API requests (start_crawl, cancel_crawl_job) interleave with them.   *)
(*  - Adapter responses are nondeterministic: every fetch may fail (the    *)
(*    _fetch_* wrappers turn that into None / []), and the records of a    *)
(*    page are drawn one by one from small domains.                        *)
(*  - Edge weights are exact rationals [n, d] (Python floats without the   *)
(*    rounding).  Timestamps are ticks of a logical clock, 0 meaning NULL. *)
(*  - app/database.py is not part of the sources; the store is the one     *)
(*    the design describes: every flush is an independent atomic           *)
(*    operation whose result other sessions see (Visible).                 *)
(***************************************************************************)
EXTENDS Integers, Sequences, FiniteSets, TLC

VARIABLES
    jobs,    \* crawl_jobs table: sequence of CrawlJob rows, id = index
    nodes,   \* nodes table: set of Node rows
    edges,   \* edges table: set of Edge rows
    runs,    \* crawler instances and the crawl() call each executes
    tasks,   \* background tasks scheduled by start_crawl
    api,     \* the response of the API request just served (NoResponse otherwise)
    clock,   \* logical clock read by datetime.utcnow()
    calls,   \* SpecUpsert: the direct create_or_update_node / create_edge calls made
    limiter, \* the RateLimiter of one crawler and the event loop's timers
    fetchers,\* the fetch_with_rate_limit calls in progress on that crawler
    graph    \* the graph query being served and its response

vars == <<jobs, nodes, edges, runs, tasks, api, clock, calls, limiter, fetchers, graph>>

---------------------------------------------------------------------------
(* Bounds of the model *)

MaxRuns == 1          \* crawler instances (crawl() calls) per behaviour
MaxRequests == 1      \* start_crawl requests per behaviour
MaxPage == 2          \* records returned by one related-record fetch
MaxBudget == 2        \* largest max_entities requested
MaxDepthArg == 3      \* largest depth requested
MaxCrawlers == 3      \* SpecUpsert: crawler instances sharing the store
MaxNodeCalls == 2     \* SpecUpsert: create_or_update_node calls per behaviour
MaxEdgeCalls == 3     \* SpecUpsert: create_edge calls per behaviour
MaxCallers == 2       \* SpecFetch: tasks fetching through one RateLimiter
MaxAttempts == 3      \* SpecFetch: network attempts one fetch call may make

Runs == 1..MaxRuns
Crawlers == 1..MaxCrawlers
JobIds == 1..(MaxRuns + MaxRequests + 1)   \* the last id is never created

---------------------------------------------------------------------------
(* Values *)

Null == "<null>"
NoResponse == [op |-> "none", job |-> 0, code |-> 0]
NoTime == 0
NoLimiter == [rate |-> 0]
NoQuery == [op |-> "none"]

PENDING == "pending"
RUNNING == "running"
COMPLETED == "completed"
FAILED == "failed"
CANCELLED == "cancelled"

Sources == {"reddit", "github", "wikipedia"}

\* Names the sources hand out: two of them differ only in case.
Names == {"a", "b", "B"}

Lower(s) == IF s = "B" THEN "b" ELSE s

Join(o, r) == o \o "/" \o r

LowerJoin(o, r) == Join(Lower(o), Lower(r))

HasSlash(s) == \E o \in Names, r \in Names : s = Join(o, r)

SplitOwner(s) == CHOOSE o \in Names : \E r \in Names : s = Join(o, r)

SplitRepo(s) == CHOOSE r \in Names : s = Join(SplitOwner(s), r)

\* Metadata: a mapping from string keys to scalars.
EmptyMeta == [k \in {} |-> 0]
RecordMetas == {[k1 |-> 1]}    \* what the crawlers derive from a record

\* {**a, **b}
MergeMeta(a, b) ==
    [k \in (DOMAIN a) \cup (DOMAIN b) |-> IF k \in DOMAIN b THEN b[k] ELSE a[k]]

Truthy(m) == DOMAIN m # {}

\* Exact rationals for the float weights.
Abs(x) == IF x < 0 THEN -x ELSE x

RECURSIVE GCD(_, _)
GCD(a, b) == IF b = 0 THEN a ELSE GCD(b, a % b)

Rat(n, d) == LET g == GCD(Abs(n), d) IN [n |-> n \div g, d |-> d \div g]

RatLeq(a, b) == a.n * b.d <= b.n * a.d

RatMin(a, b) == IF RatLeq(a, b) THEN a ELSE b

RatOne == Rat(1, 1)

RatZero == Rat(0, 1)

Card(S) == Cardinality(S)

---------------------------------------------------------------------------
(* The store *)

NodeKey(n) == <<n.source, n.entity_type, n.entity_id>>

NodesAt(ns, key) == {n \in ns : NodeKey(n) = key}

EdgeKey(e) == <<e.source_node_id, e.target_node_id, e.relationship_type>>

EdgesAt(es, key) == {e \in es : EdgeKey(e) = key}

MaxOf(S) == IF S = {} THEN 0 ELSE CHOOSE x \in S : \A y \in S : y <= x

\* uuid4(): an id no row of the table has.
FreshId(rows) == MaxOf({x.id : x \in rows}) + 1

\* A row of another session is visible once it is flushed.
Visible(j) == j \in 1..Len(jobs)

NoCount == -1

\* Variant of UpdatedNode that stores the new metadata in place of the merge.
ReplacedNode(n, display_name, metadata) ==
    [n EXCEPT !.display_name = display_name, !.metadata = metadata]

\* BaseCrawler.create_or_update_node, the branch that updates an existing row.
UpdatedNode(n, display_name, metadata) ==
    [n EXCEPT !.display_name = display_name,
              !.metadata = IF Truthy(metadata) THEN MergeMeta(@, metadata) ELSE @]

NewNode(ns, source, entity_type, entity_id, display_name, metadata) ==
    [id |-> FreshId(ns), source |-> source, entity_type |-> entity_type,
     entity_id |-> entity_id, display_name |-> display_name, metadata |-> metadata]

\* Variant of create_or_update_node that leaves the key out of the discovered
\* set.
create_or_update_node_unrecorded(ns, dn, source, entity_type, entity_id, display_name, metadata) ==
    LET key == <<source, entity_type, entity_id>>
        found == NodesAt(ns, key)
    IN  IF found # {}
        THEN LET old == CHOOSE n \in found : TRUE
             IN  [nodes |-> (ns \ {old}) \cup {UpdatedNode(old, display_name, metadata)},
                  dn |-> dn, node |-> old.id, selects |-> 1]
        ELSE LET new == NewNode(ns, source, entity_type, entity_id, display_name, metadata)
             IN  [nodes |-> ns \cup {new}, dn |-> dn, node |-> new.id, selects |-> 1]

\* BaseCrawler.create_or_update_node: the new nodes table, the new discovered
\* set, the id of the node returned and the SELECT statements executed.  A
\* key already in the discovered set is only looked up (scalar_one).
create_or_update_node(ns, dn, source, entity_type, entity_id, display_name, metadata) ==
    LET key == <<source, entity_type, entity_id>>
        found == NodesAt(ns, key)
    IN  IF key \in dn
        THEN [nodes |-> ns, dn |-> dn, node |-> (CHOOSE n \in found : TRUE).id,
              selects |-> 1]
        ELSE IF found # {}
        THEN LET old == CHOOSE n \in found : TRUE
             IN  [nodes |-> (ns \ {old}) \cup {UpdatedNode(old, display_name, metadata)},
                  dn |-> dn \cup {key}, node |-> old.id, selects |-> 1]
        ELSE LET new == NewNode(ns, source, entity_type, entity_id, display_name, metadata)
             IN  [nodes |-> ns \cup {new}, dn |-> dn \cup {key}, node |-> new.id,
                  selects |-> 1]

\* Variant of MergedWeight that adds the weights.
SummedWeight(old, new) == Rat(old.n * new.d + new.n * old.d, old.d * new.d)

\* edge.weight = (edge.weight + weight) / 2
MergedWeight(old, new) == Rat(old.n * new.d + new.n * old.d, 2 * old.d * new.d)

\* BaseCrawler.create_edge, the branch that updates an existing row.
UpdatedEdge(e, weight, metadata) ==
    [e EXCEPT !.weight = MergedWeight(@, weight),
              !.metadata = IF Truthy(metadata) THEN MergeMeta(@, metadata) ELSE @]

NewEdge(es, source_node_id, target_node_id, relationship_type, weight, metadata) ==
    [id |-> FreshId(es), source_node_id |-> source_node_id,
     target_node_id |-> target_node_id, relationship_type |-> relationship_type,
     weight |-> weight, metadata |-> metadata]

\* BaseCrawler.create_edge: the new edges table, the new discovered-edge set
\* and the id of the edge returned (0: None).
create_edge(es, de, source_node_id, target_node_id, relationship_type, weight, metadata) ==
    LET key == <<source_node_id, target_node_id, relationship_type>>
        found == EdgesAt(es, key)
    IN  IF key \in de
        THEN [edges |-> es, de |-> de, edge |-> 0, selects |-> 0]
        ELSE IF found # {}
        THEN LET old == CHOOSE e \in found : TRUE
             IN  [edges |-> (es \ {old}) \cup {UpdatedEdge(old, weight, metadata)},
                  de |-> de \cup {key}, edge |-> old.id, selects |-> 1]
        ELSE LET new == NewEdge(es, source_node_id, target_node_id,
                                relationship_type, weight, metadata)
             IN  [edges |-> es \cup {new}, de |-> de \cup {key}, edge |-> new.id,
                  selects |-> 1]

---------------------------------------------------------------------------
(* CrawlJob *)

\* CrawlJob(source=..., status=PENDING) with the column defaults.
NewJob(source) ==
    [source |-> source, status |-> PENDING, entity_count |-> 0, edge_count |-> 0,
     error_message |-> Null, started_at |-> NoTime, completed_at |-> NoTime]

\* Variant of is_finished that leaves CANCELLED out.
is_completed_or_failed(job) == job.status \in {COMPLETED, FAILED}

\* CrawlJob.is_finished
is_finished(job) == job.status \in {COMPLETED, FAILED, CANCELLED}

\* Variant of update_crawl_job that stamps completed_at on COMPLETED only.
update_crawl_job_unstamped(job, status, entity_count, edge_count, error_message, now) ==
    [job EXCEPT
        !.status = status,
        !.entity_count = IF entity_count # NoCount THEN entity_count ELSE @,
        !.edge_count = IF edge_count # NoCount THEN edge_count ELSE @,
        !.error_message = IF error_message # Null /\ error_message # "" THEN error_message ELSE @,
        !.started_at = IF status = RUNNING /\ @ = NoTime THEN now ELSE @,
        !.completed_at = IF status = COMPLETED THEN now ELSE @]

\* Variant of update_crawl_job that does not stamp started_at.
update_crawl_job_unstarted(job, status, entity_count, edge_count, error_message, now) ==
    [job EXCEPT
        !.status = status,
        !.entity_count = IF entity_count # NoCount THEN entity_count ELSE @,
        !.edge_count = IF edge_count # NoCount THEN edge_count ELSE @,
        !.error_message = IF error_message # Null /\ error_message # "" THEN error_message ELSE @,
        !.completed_at = IF status \in {COMPLETED, FAILED} THEN now ELSE @]

\* BaseCrawler.update_crawl_job; error_message is a string or Null, the counts
\* an integer or NoCount (None).
update_crawl_job(job, status, entity_count, edge_count, error_message, now) ==
    [job EXCEPT
        !.status = status,
        !.entity_count = IF entity_count # NoCount THEN entity_count ELSE @,
        !.edge_count = IF edge_count # NoCount THEN edge_count ELSE @,
        !.error_message = IF error_message # Null /\ error_message # "" THEN error_message ELSE @,
        !.started_at = IF status = RUNNING /\ @ = NoTime THEN now ELSE @,
        !.completed_at = IF status \in {COMPLETED, FAILED} THEN now ELSE @]

---------------------------------------------------------------------------
(* Crawler instances *)

\* A crawler right after __init__: empty discovered sets, no crawl() yet.
\* exc, fetch_failed, obs and committed record what the crawl() call went
\* through: the exception that escaped the traversal, whether a fetch raised,
\* how far the engine worked after an external cancel, whether it committed;
\* seed records what the fetch of the start entity gave.
IdleRun ==
    [pc |-> "idle", source |-> "", start |-> "", depth |-> 0, max |-> 0, job |-> 0,
     dn |-> {}, de |-> {}, stack |-> << >>, exc |-> Null, fetch_failed |-> FALSE,
     obs |-> "none", committed |-> FALSE, seed |-> "none"]

\* One activation of a _crawl_* coroutine and its local variables.
Frame(fn, name, name2, d, node) ==
    [fn |-> fn, pc |-> "start", name |-> name, name2 |-> name2, d |-> d, node |-> node,
     todo |-> 0, cur |-> "", curnode |-> 0, sk |-> "int", w |-> 0, picked |-> {}]

Top(r) == runs[r].stack[Len(runs[r].stack)]

SetTop(s, f) == [s EXCEPT ![Len(s)] = f]

Pop(s) == SubSeq(s, 1, Len(s) - 1)

At(r, fn, pc) ==
    /\ runs[r].pc = "traverse"
    /\ Top(r).fn = fn
    /\ Top(r).pc = pc

\* What the engine has done since its job was cancelled from outside:
\* "boundary" once a fetch has returned, "late" once it fetched or upserted
\* after that boundary.
ObsAfter(run, kind) ==
    IF run.job = 0 \/ kind = "none" THEN run.obs
    ELSE IF jobs[run.job].status # CANCELLED THEN run.obs
    ELSE IF run.obs = "none" THEN (IF kind = "fetch" THEN "boundary" ELSE "none")
    ELSE "late"

\* What is known of the start entity after a step: the first fetch of a
\* run is that of the start entity, which was "found" when the outermost
\* _crawl_* goes on and "missing" when it returns at once; "refetched" once
\* anything is fetched after a missing start entity.
SeedAfter(run, stack, kind) ==
    IF kind # "fetch" THEN run.seed
    ELSE IF run.seed = "none" THEN (IF stack = << >> THEN "missing" ELSE "found")
    ELSE IF run.seed = "missing" THEN "refetched"
    ELSE run.seed

\* Variant of StepRun in which a fetch that raised is not turned into an
\* empty result: the exception leaves the traversal.
StepRun_unswallowed(run, stack, dn, de, kind, fetch_err) ==
    IF fetch_err
    THEN [run EXCEPT !.stack = << >>, !.pc = "except", !.exc = "ClientError",
                     !.obs = ObsAfter(run, kind),
                     !.seed = SeedAfter(run, << >>, kind),
                     !.fetch_failed = TRUE]
    ELSE [run EXCEPT !.stack = stack,
                     !.pc = IF stack = << >> THEN "complete" ELSE "traverse",
                     !.dn = dn, !.de = de,
                     !.obs = ObsAfter(run, kind),
                     !.seed = SeedAfter(run, stack, kind),
                     !.fetch_failed = @ \/ fetch_err]

\* The crawler after one step of the traversal; an empty stack means the
\* outermost _crawl_* call has returned to crawl().
StepRun(run, stack, dn, de, kind, fetch_err) ==
    [run EXCEPT !.stack = stack,
                !.pc = IF stack = << >> THEN "complete" ELSE "traverse",
                !.dn = dn, !.de = de,
                !.obs = ObsAfter(run, kind),
                !.seed = SeedAfter(run, stack, kind),
                !.fetch_failed = @ \/ fetch_err]

\* The crawler after an exception left the traversal: crawl()'s except clause.
RaiseRun(run, desc, kind) ==
    [run EXCEPT !.stack = << >>, !.pc = "except", !.exc = desc,
                !.obs = ObsAfter(run, kind)]

StartEntities(source) ==
    IF source = "github" THEN {"a", Join("B", "a")} ELSE {"a", "B"}

RootFrame(source, start) ==
    IF source = "reddit" THEN Frame("reddit._crawl_subreddit", start, "", 0, 0)
    ELSE IF source = "wikipedia" THEN Frame("wikipedia._crawl_article", start, "", 0, 0)
    ELSE IF HasSlash(start)
    THEN Frame("github._crawl_repository", SplitOwner(start), SplitRepo(start), 0, 0)
    ELSE Frame("github._crawl_user", start, "", 0, 0)

---------------------------------------------------------------------------
(* crawl(): the job lifecycle around the traversal *)

\* crawl() up to the flush of create_crawl_job.
Crawl(r, source, start, depth, max) ==
    /\ runs[r].pc = "idle"
    /\ jobs' = Append(jobs, NewJob(source))
    /\ runs' = [runs EXCEPT ![r] = [@ EXCEPT !.pc = "created", !.source = source,
                    !.start = start, !.depth = depth, !.max = max,
                    !.job = Len(jobs) + 1]]

\* A caller awaits crawler.crawl(start_entity, depth, max_entities) itself.
CallCrawl(r) ==
    /\ \E source \in Sources, depth \in 1..MaxDepthArg, max \in 1..MaxBudget :
         \E start \in StartEntities(source) : Crawl(r, source, start, depth, max)
    /\ api' = NoResponse
    /\ UNCHANGED <<nodes, edges, tasks, clock, calls, limiter, fetchers, graph>>

\* update_crawl_job(job, RUNNING), then the call of the outermost _crawl_*.
SetRunning(r) ==
    /\ runs[r].pc = "created"
    /\ clock' = clock + 1
    /\ jobs' = [jobs EXCEPT ![runs[r].job] =
                    update_crawl_job(@, RUNNING, NoCount, NoCount, Null, clock')]
    /\ runs' = [runs EXCEPT ![r] = [@ EXCEPT !.pc = "traverse",
                    !.stack = <<RootFrame(runs[r].source, runs[r].start)>>]]
    /\ api' = NoResponse
    /\ UNCHANGED <<nodes, edges, tasks, calls, limiter, fetchers, graph>>

\* update_crawl_job(job, COMPLETED, len(discovered_nodes), len(discovered_edges))
Complete(r) ==
    /\ runs[r].pc = "complete"
    /\ clock' = clock + 1
    /\ jobs' = [jobs EXCEPT ![runs[r].job] =
                    update_crawl_job(@, COMPLETED, Card(runs[r].dn), Card(runs[r].de),
                                     Null, clock')]
    /\ runs' = [runs EXCEPT ![r].pc = "commit"]
    /\ api' = NoResponse
    /\ UNCHANGED <<nodes, edges, tasks, calls, limiter, fetchers, graph>>

\* db.commit(); return job
Commit(r) ==
    /\ runs[r].pc = "commit"
    /\ runs' = [runs EXCEPT ![r].pc = "returned", ![r].committed = TRUE]
    /\ api' = NoResponse
    /\ UNCHANGED <<jobs, nodes, edges, tasks, clock, calls, limiter, fetchers, graph>>

\* except Exception as e: update_crawl_job(job, FAILED, error_message=str(e))
Fail(r) ==
    /\ runs[r].pc = "except"
    /\ clock' = clock + 1
    /\ jobs' = [jobs EXCEPT ![runs[r].job] =
                    update_crawl_job(@, FAILED, NoCount, NoCount, runs[r].exc, clock')]
    /\ runs' = [runs EXCEPT ![r].pc = "commit_failed"]
    /\ api' = NoResponse
    /\ UNCHANGED <<nodes, edges, tasks, calls, limiter, fetchers, graph>>

\* Variant of CommitFailed that rolls the run's transaction back.
CommitFailed_rollback(r) ==
    /\ runs[r].pc = "commit_failed"
    /\ runs' = [runs EXCEPT ![r].pc = "raised"]
    /\ nodes' = {n \in nodes : NodeKey(n) \notin runs[r].dn}
    /\ edges' = {e \in edges : EdgeKey(e) \notin runs[r].de}
    /\ api' = NoResponse
    /\ UNCHANGED <<jobs, tasks, clock, calls, limiter, fetchers, graph>>

\* db.commit(); raise
CommitFailed(r) ==
    /\ runs[r].pc = "commit_failed"
    /\ runs' = [runs EXCEPT ![r].pc = "raised", ![r].committed = TRUE]
    /\ api' = NoResponse
    /\ UNCHANGED <<jobs, nodes, edges, tasks, clock, calls, limiter, fetchers, graph>>

---------------------------------------------------------------------------
(* The crawl API *)

\* POST /start: a PENDING job is committed and returned, the crawl is left
\* to a background task.
start_crawl ==
    /\ Len(tasks) < MaxRequests
    /\ \E source \in Sources, depth \in 1..MaxDepthArg, max \in 1..MaxBudget :
         \E start \in StartEntities(source) :
            /\ jobs' = Append(jobs, NewJob(source))
            /\ tasks' = Append(tasks, [source |-> source, start |-> start, depth |-> depth,
                                       max |-> max, job |-> Len(jobs) + 1,
                                       state |-> "queued", run |-> 0])
            /\ api' = [op |-> "start_crawl", job |-> Len(jobs) + 1, code |-> 202]
    /\ UNCHANGED <<nodes, edges, runs, clock, calls, limiter, fetchers, graph>>

\* run_crawler_task for source "reddit": a RedditCrawler is built and crawl()
\* awaited; whatever crawl() raises is swallowed.
RunTaskReddit(t) ==
    /\ tasks[t].state = "queued"
    /\ tasks[t].source = "reddit"
    /\ \E r \in Runs :
         /\ Crawl(r, "reddit", tasks[t].start, tasks[t].depth, tasks[t].max)
         /\ tasks' = [tasks EXCEPT ![t].state = "running", ![t].run = r]
    /\ api' = NoResponse
    /\ UNCHANGED <<nodes, edges, clock, calls, limiter, fetchers, graph>>

\* run_crawler_task for any other source: ValueError, swallowed.
RunTaskUnsupported(t) ==
    /\ tasks[t].state = "queued"
    /\ tasks[t].source # "reddit"
    /\ tasks' = [tasks EXCEPT ![t].state = "done"]
    /\ api' = NoResponse
    /\ UNCHANGED <<jobs, nodes, edges, runs, clock, calls, limiter, fetchers, graph>>

\* The background task is over: it ran no crawler, or its crawl() has
\* returned or raised.
TaskDone(t) ==
    \/ tasks[t].state = "done"
    \/ tasks[t].state = "running" /\ runs[tasks[t].run].pc \in {"returned", "raised"}

\* DELETE /jobs/{job_id}
cancel_crawl_job(j) ==
    /\ IF ~Visible(j)
       THEN /\ api' = [op |-> "cancel", job |-> 0, code |-> 404]
            /\ UNCHANGED <<jobs, clock>>
       ELSE IF is_finished(jobs[j])
       THEN /\ api' = [op |-> "cancel", job |-> 0, code |-> 400]
            /\ UNCHANGED <<jobs, clock>>
       ELSE /\ clock' = clock + 1
            /\ jobs' = [jobs EXCEPT ![j] = [@ EXCEPT !.status = CANCELLED,
                            !.completed_at = IF @ = NoTime THEN clock' ELSE @]]
            /\ api' = [op |-> "cancel", job |-> 0, code |-> 204]
    /\ UNCHANGED <<nodes, edges, runs, tasks, calls, limiter, fetchers, graph>>

---------------------------------------------------------------------------
(* Adapter records *)

NoName == "[deleted]"        \* a record without the name field, or a deleted author
ScoreKinds == {"int", "missing", "null"}
ScoreVals == {-50}          \* post scores
Counts == {1, 20}            \* posts per subreddit, contributions
MaxCount == MaxOf(Counts)    \* the largest count a record carries
StoreErrors == {"", "IntegrityError"}    \* str(e) of what a flush raises

Min(a, b) == IF a <= b THEN a ELSE b

---------------------------------------------------------------------------
(* RedditCrawler *)

MaxSubreddits == 5
RedditUserMeta == [post_karma |-> 0, comment_karma |-> 0]

\* _crawl_subreddit: the budget check and _fetch_subreddit_info
Reddit_FetchSubredditInfo(r) ==
    /\ At(r, "reddit._crawl_subreddit", "start")
    /\ LET run == runs[r]
           f == Top(r)
       IN  IF Card(run.dn) >= run.max
           THEN runs' = [runs EXCEPT ![r] =
                            StepRun(run, Pop(run.stack), run.dn, run.de, "none", FALSE)]
           ELSE \E outcome \in {"ok", "empty", "error"} :
                  runs' = [runs EXCEPT ![r] =
                      StepRun(run,
                              IF outcome = "ok"
                              THEN SetTop(run.stack, [f EXCEPT !.pc = "node"])
                              ELSE Pop(run.stack),
                              run.dn, run.de, "fetch", outcome = "error")]
    /\ api' = NoResponse
    /\ UNCHANGED <<jobs, nodes, edges, tasks, clock, calls, limiter, fetchers, graph>>

\* _crawl_subreddit: the subreddit node, then "if depth < 2: return"
Reddit_CreateSubredditNode(r) ==
    /\ At(r, "reddit._crawl_subreddit", "node")
    /\ \E meta \in RecordMetas :
         LET run == runs[r]
             f == Top(r)
             res == create_or_update_node(nodes, run.dn, "reddit", "subreddit",
                                          Lower(f.name), "r/" \o f.name, meta)
         IN  /\ nodes' = res.nodes
             /\ runs' = [runs EXCEPT ![r] =
                    StepRun(run,
                            IF run.depth < 2 THEN Pop(run.stack)
                            ELSE SetTop(run.stack, [f EXCEPT !.pc = "posts", !.node = res.node]),
                            res.dn, run.de, "upsert", FALSE)]
    /\ api' = NoResponse
    /\ UNCHANGED <<jobs, edges, tasks, clock, calls, limiter, fetchers, graph>>

\* _crawl_subreddit: _fetch_subreddit_posts (an error gives [])
Reddit_FetchSubredditPosts(r) ==
    /\ At(r, "reddit._crawl_subreddit", "posts")
    /\ \E n \in 0..MaxPage, err \in BOOLEAN :
         /\ err => n = 0
         /\ LET run == runs[r]
                f == Top(r)
            IN  runs' = [runs EXCEPT ![r] =
                    StepRun(run, SetTop(run.stack, [f EXCEPT !.pc = "loop", !.todo = n]),
                            run.dn, run.de, "fetch", err)]
    /\ api' = NoResponse
    /\ UNCHANGED <<jobs, nodes, edges, tasks, clock, calls, limiter, fetchers, graph>>

\* _crawl_subreddit: the head of "for post in posts" up to the user node
Reddit_NextPost(r) ==
    /\ At(r, "reddit._crawl_subreddit", "loop")
    /\ LET run == runs[r]
           f == Top(r)
       IN  IF f.todo = 0 \/ Card(run.dn) >= run.max
           THEN /\ runs' = [runs EXCEPT ![r] =
                        StepRun(run, Pop(run.stack), run.dn, run.de, "none", FALSE)]
                /\ nodes' = nodes
           ELSE \E author \in Names \cup {NoName}, sk \in ScoreKinds, score \in ScoreVals :
                  IF author = NoName
                  THEN /\ runs' = [runs EXCEPT ![r] =
                               StepRun(run, SetTop(run.stack, [f EXCEPT !.todo = @ - 1]),
                                       run.dn, run.de, "none", FALSE)]
                       /\ nodes' = nodes
                  ELSE LET res == create_or_update_node(nodes, run.dn, "reddit", "user",
                                      Lower(author), "u/" \o author, RedditUserMeta)
                       IN  /\ nodes' = res.nodes
                           /\ runs' = [runs EXCEPT ![r] =
                                  StepRun(run,
                                          SetTop(run.stack,
                                                 [f EXCEPT !.pc = "edge", !.cur = author,
                                                           !.curnode = res.node, !.sk = sk,
                                                           !.w = IF sk = "int" THEN score ELSE 1]),
                                          res.dn, run.de, "upsert", FALSE)]
    /\ api' = NoResponse
    /\ UNCHANGED <<jobs, edges, tasks, clock, calls, limiter, fetchers, graph>>

\* _crawl_subreddit: the posts_in edge with weight score / 100.0 (TypeError
\* on a null score), then _crawl_user when depth >= 3
Reddit_CreatePostEdge(r) ==
    /\ At(r, "reddit._crawl_subreddit", "edge")
    /\ LET run == runs[r]
           f == Top(r)
       IN  IF f.sk = "null"
           THEN /\ runs' = [runs EXCEPT ![r] = RaiseRun(run, "TypeError", "none")]
                /\ edges' = edges
           ELSE \E meta \in RecordMetas :
                  LET res == create_edge(edges, run.de, f.curnode, f.node, "posts_in",
                                         Rat(f.w, 100), meta)
                      next == SetTop(run.stack, [f EXCEPT !.pc = "loop", !.todo = @ - 1])
                  IN  /\ edges' = res.edges
                      /\ runs' = [runs EXCEPT ![r] =
                             StepRun(run,
                                     IF run.depth >= 3
                                     THEN Append(next, Frame("reddit._crawl_user", f.cur, "", 0, 0))
                                     ELSE next,
                                     run.dn, res.de, "upsert", FALSE)]
    /\ api' = NoResponse
    /\ UNCHANGED <<jobs, nodes, tasks, clock, calls, limiter, fetchers, graph>>

\* _crawl_user: _fetch_user_posts and the subreddit counts; todo is the
\* number of subreddits among the top max_subreddits
Reddit_FetchUserPosts(r) ==
    /\ At(r, "reddit._crawl_user", "start")
    /\ \E k \in 0..Min(Min(MaxPage, MaxSubreddits), Card(Names)), err \in BOOLEAN :
         /\ err => k = 0
         /\ LET run == runs[r]
                f == Top(r)
            IN  runs' = [runs EXCEPT ![r] =
                    StepRun(run, SetTop(run.stack, [f EXCEPT !.pc = "node", !.todo = k,
                                                             !.w = MaxCount]),
                            run.dn, run.de, "fetch", err)]
    /\ api' = NoResponse
    /\ UNCHANGED <<jobs, nodes, edges, tasks, clock, calls, limiter, fetchers, graph>>

\* _crawl_user: the user node
Reddit_UserNode(r) ==
    /\ At(r, "reddit._crawl_user", "node")
    /\ LET run == runs[r]
           f == Top(r)
           res == create_or_update_node(nodes, run.dn, "reddit", "user",
                                        Lower(f.name), "u/" \o f.name, EmptyMeta)
       IN  /\ nodes' = res.nodes
           /\ runs' = [runs EXCEPT ![r] =
                  StepRun(run, SetTop(run.stack, [f EXCEPT !.pc = "subs", !.node = res.node]),
                          res.dn, run.de, "upsert", FALSE)]
    /\ api' = NoResponse
    /\ UNCHANGED <<jobs, edges, tasks, clock, calls, limiter, fetchers, graph>>

\* _crawl_user: the next of the top subreddits (by count, descending) and
\* its node
Reddit_UserSubreddit(r) ==
    /\ At(r, "reddit._crawl_user", "subs")
    /\ LET run == runs[r]
           f == Top(r)
       IN  IF f.todo = 0
           THEN /\ runs' = [runs EXCEPT ![r] =
                        StepRun(run, Pop(run.stack), run.dn, run.de, "none", FALSE)]
                /\ nodes' = nodes
           ELSE \E sub \in Names \ f.picked, count \in Counts :
                  /\ count <= f.w
                  /\ LET res == create_or_update_node(nodes, run.dn, "reddit", "subreddit",
                                       Lower(sub), "r/" \o sub, EmptyMeta)
                     IN  /\ nodes' = res.nodes
                         /\ runs' = [runs EXCEPT ![r] =
                                StepRun(run,
                                        SetTop(run.stack,
                                               [f EXCEPT !.pc = "subedge", !.cur = sub,
                                                         !.curnode = res.node, !.w = count,
                                                         !.picked = @ \cup {sub}]),
                                        res.dn, run.de, "upsert", FALSE)]
    /\ api' = NoResponse
    /\ UNCHANGED <<jobs, edges, tasks, clock, calls, limiter, fetchers, graph>>

\* _crawl_user: the posts_in edge with weight min(count / 10.0, 1.0)
Reddit_UserSubredditEdge(r) ==
    /\ At(r, "reddit._crawl_user", "subedge")
    /\ LET run == runs[r]
           f == Top(r)
           res == create_edge(edges, run.de, f.node, f.curnode, "posts_in",
                              RatMin(Rat(f.w, 10), RatOne), [post_count |-> f.w])
       IN  /\ edges' = res.edges
           /\ runs' = [runs EXCEPT ![r] =
                  StepRun(run, SetTop(run.stack, [f EXCEPT !.pc = "subs", !.todo = @ - 1]),
                          run.dn, res.de, "upsert", FALSE)]
    /\ api' = NoResponse
    /\ UNCHANGED <<jobs, nodes, tasks, clock, calls, limiter, fetchers, graph>>

RedditStep(r) ==
    \/ Reddit_FetchSubredditInfo(r)
    \/ Reddit_CreateSubredditNode(r)
    \/ Reddit_FetchSubredditPosts(r)
    \/ Reddit_NextPost(r)
    \/ Reddit_CreatePostEdge(r)
    \/ Reddit_FetchUserPosts(r)
    \/ Reddit_UserNode(r)
    \/ Reddit_UserSubreddit(r)
    \/ Reddit_UserSubredditEdge(r)

---------------------------------------------------------------------------
(* GitHubCrawler *)

SafetyLimit == 1000
RecordMeta == CHOOSE m \in RecordMetas : TRUE

\* A step that runs no fetch and no upsert: a return, a break or a continue.
Skip(r, stack) ==
    runs' = [runs EXCEPT ![r] = StepRun(runs[r], stack, runs[r].dn, runs[r].de, "none", FALSE)]

\* A step that ends with a fetch.
Fetched(r, stack, err) ==
    runs' = [runs EXCEPT ![r] = StepRun(runs[r], stack, runs[r].dn, runs[r].de, "fetch", err)]

\* Variant of NodeResult that passes a fixed source name.
NodeResult_reddit(r, entity_type, entity_id, display_name, metadata) ==
    create_or_update_node(nodes, runs[r].dn, "reddit", entity_type,
                          entity_id, display_name, metadata)

\* A step that ends with create_or_update_node; stack(id) is the stack once
\* the node's id is known.
NodeResult(r, entity_type, entity_id, display_name, metadata) ==
    create_or_update_node(nodes, runs[r].dn, runs[r].source, entity_type,
                          entity_id, display_name, metadata)

NodeUpserted(r, res, stack) ==
    /\ nodes' = res.nodes
    /\ runs' = [runs EXCEPT ![r] =
           StepRun(runs[r], stack, res.dn, runs[r].de, "upsert", FALSE)]

\* A step that ends with create_edge.
EdgeUpserted(r, source_node_id, target_node_id, relationship_type, weight, metadata, stack) ==
    LET res == create_edge(edges, runs[r].de, source_node_id, target_node_id,
                           relationship_type, weight, metadata)
    IN  /\ edges' = res.edges
        /\ runs' = [runs EXCEPT ![r] =
               StepRun(runs[r], stack, runs[r].dn, res.de, "upsert", FALSE)]

BudgetHit(r) == Card(runs[r].dn) >= runs[r].max

\* _crawl_user: the budget check and _fetch_user_info
GitHub_FetchUserInfo(r) ==
    /\ At(r, "github._crawl_user", "start")
    /\ LET s == runs[r].stack
       IN  IF BudgetHit(r) THEN Skip(r, Pop(s))
           ELSE \E outcome \in {"ok", "empty", "error"} :
                  Fetched(r, IF outcome = "ok" THEN SetTop(s, [Top(r) EXCEPT !.pc = "node"])
                             ELSE Pop(s),
                          outcome = "error")
    /\ api' = NoResponse
    /\ UNCHANGED <<jobs, nodes, edges, tasks, clock, calls, limiter, fetchers, graph>>

\* _crawl_user: the user node, then "if depth < 2: return"
GitHub_CreateUserNode(r) ==
    /\ At(r, "github._crawl_user", "node")
    /\ LET s == runs[r].stack
           f == Top(r)
           next(id) == IF runs[r].depth < 2 THEN Pop(s)
                       ELSE SetTop(s, [f EXCEPT !.pc = "repos", !.node = id])
       IN  LET res == NodeResult(r, "user", Lower(f.name), f.name, RecordMeta)
           IN  NodeUpserted(r, res, next(res.node))
    /\ api' = NoResponse
    /\ UNCHANGED <<jobs, edges, tasks, clock, calls, limiter, fetchers, graph>>

\* _crawl_user: _fetch_user_repos
GitHub_FetchUserRepos(r) ==
    /\ At(r, "github._crawl_user", "repos")
    /\ \E n \in 0..MaxPage, err \in BOOLEAN :
         /\ err => n = 0
         /\ Fetched(r, SetTop(runs[r].stack, [Top(r) EXCEPT !.pc = "repoloop", !.todo = n]), err)
    /\ api' = NoResponse
    /\ UNCHANGED <<jobs, nodes, edges, tasks, clock, calls, limiter, fetchers, graph>>

\* _crawl_user: the head of "for repo in repos" up to the repository node
GitHub_NextRepo(r) ==
    /\ At(r, "github._crawl_user", "repoloop")
    /\ LET s == runs[r].stack
           f == Top(r)
       IN  IF f.todo = 0 \/ BudgetHit(r)
           THEN Skip(r, SetTop(s, [f EXCEPT !.pc = "followers"])) /\ nodes' = nodes
           ELSE \E repo_name \in Names \cup {NoName} :
                  IF repo_name = NoName
                  THEN Skip(r, SetTop(s, [f EXCEPT !.todo = @ - 1])) /\ nodes' = nodes
                  ELSE LET next(id) == SetTop(s, [f EXCEPT !.pc = "owns", !.cur = repo_name,
                                                           !.curnode = id])
                       IN  LET res == NodeResult(r, "repository", LowerJoin(f.name, repo_name),
                                                 Join(f.name, repo_name), RecordMeta)
                           IN  NodeUpserted(r, res, next(res.node))
    /\ api' = NoResponse
    /\ UNCHANGED <<jobs, edges, tasks, clock, calls, limiter, fetchers, graph>>

\* _crawl_user: the owns edge, then the contributors when depth >= 3
GitHub_CreateOwnsEdge(r) ==
    /\ At(r, "github._crawl_user", "owns")
    /\ LET s == runs[r].stack
           f == Top(r)
           next == SetTop(s, [f EXCEPT !.pc = "repoloop", !.todo = @ - 1])
       IN  EdgeUpserted(r, f.node, f.curnode, "owns", RatOne, RecordMeta,
                        IF runs[r].depth >= 3
                        THEN Append(next, Frame("github._crawl_repository_contributors",
                                                f.name, f.cur, 0, f.curnode))
                        ELSE next)
    /\ api' = NoResponse
    /\ UNCHANGED <<jobs, nodes, tasks, clock, calls, limiter, fetchers, graph>>

\* _crawl_user: _fetch_user_followers
GitHub_FetchFollowers(r) ==
    /\ At(r, "github._crawl_user", "followers")
    /\ \E n \in 0..MaxPage, err \in BOOLEAN :
         /\ err => n = 0
         /\ Fetched(r, SetTop(runs[r].stack, [Top(r) EXCEPT !.pc = "followerloop", !.todo = n]),
                    err)
    /\ api' = NoResponse
    /\ UNCHANGED <<jobs, nodes, edges, tasks, clock, calls, limiter, fetchers, graph>>

\* _crawl_user: the head of "for follower in followers" up to the follower node
GitHub_NextFollower(r) ==
    /\ At(r, "github._crawl_user", "followerloop")
    /\ LET s == runs[r].stack
           f == Top(r)
       IN  IF f.todo = 0 \/ BudgetHit(r)
           THEN Skip(r, Pop(s)) /\ nodes' = nodes
           ELSE \E login \in Names \cup {NoName} :
                  IF login = NoName
                  THEN Skip(r, SetTop(s, [f EXCEPT !.todo = @ - 1])) /\ nodes' = nodes
                  ELSE LET next(id) == SetTop(s, [f EXCEPT !.pc = "follows", !.cur = login,
                                                           !.curnode = id])
                       IN  LET res == NodeResult(r, "user", Lower(login), login, EmptyMeta)
                           IN  NodeUpserted(r, res, next(res.node))
    /\ api' = NoResponse
    /\ UNCHANGED <<jobs, edges, tasks, clock, calls, limiter, fetchers, graph>>

\* _crawl_user: the follows edge
GitHub_CreateFollowsEdge(r) ==
    /\ At(r, "github._crawl_user", "follows")
    /\ LET f == Top(r)
       IN  EdgeUpserted(r, f.curnode, f.node, "follows", RatOne, EmptyMeta,
                        SetTop(runs[r].stack, [f EXCEPT !.pc = "followerloop", !.todo = @ - 1]))
    /\ api' = NoResponse
    /\ UNCHANGED <<jobs, nodes, tasks, clock, calls, limiter, fetchers, graph>>

\* _crawl_repository: the budget check and _fetch_repo_info
GitHub_FetchRepoInfo(r) ==
    /\ At(r, "github._crawl_repository", "start")
    /\ LET s == runs[r].stack
       IN  IF BudgetHit(r) THEN Skip(r, Pop(s))
           ELSE \E outcome \in {"ok", "empty", "error"} :
                  Fetched(r, IF outcome = "ok" THEN SetTop(s, [Top(r) EXCEPT !.pc = "node"])
                             ELSE Pop(s),
                          outcome = "error")
    /\ api' = NoResponse
    /\ UNCHANGED <<jobs, nodes, edges, tasks, clock, calls, limiter, fetchers, graph>>

\* _crawl_repository: the repository node, "if depth < 2: return", then the
\* call of _crawl_repository_contributors, after which it returns
GitHub_CreateRepoNode(r) ==
    /\ At(r, "github._crawl_repository", "node")
    /\ LET s == runs[r].stack
           f == Top(r)
           next(id) == IF runs[r].depth < 2 THEN Pop(s)
                       ELSE SetTop(s, Frame("github._crawl_repository_contributors",
                                            f.name, f.name2, 0, id))
       IN  LET res == NodeResult(r, "repository", LowerJoin(f.name, f.name2), Join(f.name,
                                 f.name2), RecordMeta)
           IN  NodeUpserted(r, res, next(res.node))
    /\ api' = NoResponse
    /\ UNCHANGED <<jobs, edges, tasks, clock, calls, limiter, fetchers, graph>>

\* _crawl_repository_contributors: _fetch_repo_contributors
GitHub_FetchContributors(r) ==
    /\ At(r, "github._crawl_repository_contributors", "start")
    /\ \E n \in 0..MaxPage, err \in BOOLEAN :
         /\ err => n = 0
         /\ Fetched(r, SetTop(runs[r].stack, [Top(r) EXCEPT !.pc = "loop", !.todo = n]), err)
    /\ api' = NoResponse
    /\ UNCHANGED <<jobs, nodes, edges, tasks, clock, calls, limiter, fetchers, graph>>

\* _crawl_repository_contributors: the head of "for contributor in
\* contributors" (its limit is the constant 1000) up to the contributor node
GitHub_NextContributor(r) ==
    /\ At(r, "github._crawl_repository_contributors", "loop")
    /\ LET s == runs[r].stack
           f == Top(r)
       IN  IF f.todo = 0 \/ Card(runs[r].dn) >= SafetyLimit
           THEN Skip(r, Pop(s)) /\ nodes' = nodes
           ELSE \E login \in Names \cup {NoName}, sk \in ScoreKinds, c \in Counts :
                  IF login = NoName
                  THEN Skip(r, SetTop(s, [f EXCEPT !.todo = @ - 1])) /\ nodes' = nodes
                  ELSE LET next(id) == SetTop(s, [f EXCEPT !.pc = "edge", !.cur = login,
                                                           !.curnode = id, !.sk = sk,
                                                           !.w = IF sk = "int" THEN c ELSE 1])
                       IN  LET res == NodeResult(r, "user", Lower(login), login,
                                                 [contributions |-> IF sk = "int" THEN c ELSE 0])
                           IN  NodeUpserted(r, res, next(res.node))
    /\ api' = NoResponse
    /\ UNCHANGED <<jobs, edges, tasks, clock, calls, limiter, fetchers, graph>>

\* _crawl_repository_contributors: the contributes_to edge with weight
\* min(contributions / 100.0, 1.0) (TypeError on null contributions)
GitHub_CreateContributesEdge(r) ==
    /\ At(r, "github._crawl_repository_contributors", "edge")
    /\ LET f == Top(r)
       IN  IF f.sk = "null"
           THEN /\ runs' = [runs EXCEPT ![r] = RaiseRun(runs[r], "TypeError", "none")]
                /\ edges' = edges
           ELSE EdgeUpserted(r, f.curnode, f.node, "contributes_to",
                             RatMin(Rat(f.w, 100), RatOne), [contributions |-> f.w],
                             SetTop(runs[r].stack, [f EXCEPT !.pc = "loop", !.todo = @ - 1]))
    /\ api' = NoResponse
    /\ UNCHANGED <<jobs, nodes, tasks, clock, calls, limiter, fetchers, graph>>

GitHubStep(r) ==
    \/ GitHub_FetchUserInfo(r)
    \/ GitHub_CreateUserNode(r)
    \/ GitHub_FetchUserRepos(r)
    \/ GitHub_NextRepo(r)
    \/ GitHub_CreateOwnsEdge(r)
    \/ GitHub_FetchFollowers(r)
    \/ GitHub_NextFollower(r)
    \/ GitHub_CreateFollowsEdge(r)
    \/ GitHub_FetchRepoInfo(r)
    \/ GitHub_CreateRepoNode(r)
    \/ GitHub_FetchContributors(r)
    \/ GitHub_NextContributor(r)
    \/ GitHub_CreateContributesEdge(r)

---------------------------------------------------------------------------
(* WikipediaCrawler *)

\* str(page_data["pageid"]) of the page a title resolves to: titles that
\* differ only in case are the same page.
PageId(title) == Lower(title)

\* _crawl_article: the budget and depth checks and _fetch_article_info
Wiki_FetchArticleInfo(r) ==
    /\ At(r, "wikipedia._crawl_article", "start")
    /\ LET s == runs[r].stack
       IN  IF BudgetHit(r) \/ Top(r).d > runs[r].depth THEN Skip(r, Pop(s))
           ELSE \E outcome \in {"ok", "empty", "error"} :
                  Fetched(r, IF outcome = "ok" THEN SetTop(s, [Top(r) EXCEPT !.pc = "node"])
                             ELSE Pop(s),
                          outcome = "error")
    /\ api' = NoResponse
    /\ UNCHANGED <<jobs, nodes, edges, tasks, clock, calls, limiter, fetchers, graph>>

\* Variant of Wiki_CreateArticleNode that goes on to the links at any depth.
Wiki_CreateArticleNode_undepthed(r) ==
    /\ At(r, "wikipedia._crawl_article", "node")
    /\ LET s == runs[r].stack
           f == Top(r)
           next(id) == SetTop(s, [f EXCEPT !.pc = "links", !.node = id])
       IN  LET res == NodeResult(r, "article", PageId(f.name), f.name, RecordMeta)
           IN  NodeUpserted(r, res, next(res.node))
    /\ api' = NoResponse
    /\ UNCHANGED <<jobs, edges, tasks, clock, calls, limiter, fetchers, graph>>

\* _crawl_article: the article node, then "if current_depth >= depth: return"
Wiki_CreateArticleNode(r) ==
    /\ At(r, "wikipedia._crawl_article", "node")
    /\ LET s == runs[r].stack
           f == Top(r)
           next(id) == IF f.d >= runs[r].depth THEN Pop(s)
                       ELSE SetTop(s, [f EXCEPT !.pc = "links", !.node = id])
       IN  LET res == NodeResult(r, "article", PageId(f.name), f.name, RecordMeta)
           IN  NodeUpserted(r, res, next(res.node))
    /\ api' = NoResponse
    /\ UNCHANGED <<jobs, edges, tasks, clock, calls, limiter, fetchers, graph>>

\* _crawl_article: _fetch_article_links
Wiki_FetchLinks(r) ==
    /\ At(r, "wikipedia._crawl_article", "links")
    /\ \E n \in 0..MaxPage, err \in BOOLEAN :
         /\ err => n = 0
         /\ Fetched(r, SetTop(runs[r].stack, [Top(r) EXCEPT !.pc = "linkloop", !.todo = n]), err)
    /\ api' = NoResponse
    /\ UNCHANGED <<jobs, nodes, edges, tasks, clock, calls, limiter, fetchers, graph>>

\* _crawl_article: the head of "for link_title in links" and the
\* _fetch_article_info of the linked article
Wiki_NextLink(r) ==
    /\ At(r, "wikipedia._crawl_article", "linkloop")
    /\ LET s == runs[r].stack
           f == Top(r)
       IN  IF f.todo = 0 \/ BudgetHit(r)
           THEN Skip(r, SetTop(s, [f EXCEPT !.pc = "cats"]))
           ELSE \E link_title \in Names, outcome \in {"ok", "empty", "error"} :
                  Fetched(r, IF outcome = "ok"
                             THEN SetTop(s, [f EXCEPT !.pc = "linknode", !.cur = link_title])
                             ELSE SetTop(s, [f EXCEPT !.todo = @ - 1]),
                          outcome = "error")
    /\ api' = NoResponse
    /\ UNCHANGED <<jobs, nodes, edges, tasks, clock, calls, limiter, fetchers, graph>>

\* _crawl_article: the node of the linked article
Wiki_CreateLinkedNode(r) ==
    /\ At(r, "wikipedia._crawl_article", "linknode")
    /\ LET f == Top(r)
           next(id) == SetTop(runs[r].stack, [f EXCEPT !.pc = "linkedge", !.curnode = id])
       IN  LET res == NodeResult(r, "article", PageId(f.cur), f.cur, RecordMeta)
           IN  NodeUpserted(r, res, next(res.node))
    /\ api' = NoResponse
    /\ UNCHANGED <<jobs, edges, tasks, clock, calls, limiter, fetchers, graph>>

\* _crawl_article: the links_to edge, then the recursive call when
\* current_depth + 1 < depth
Wiki_CreateLinkEdge(r) ==
    /\ At(r, "wikipedia._crawl_article", "linkedge")
    /\ LET f == Top(r)
           next == SetTop(runs[r].stack, [f EXCEPT !.pc = "linkloop", !.todo = @ - 1])
       IN  EdgeUpserted(r, f.node, f.curnode, "links_to", RatOne, EmptyMeta,
                        IF f.d + 1 < runs[r].depth
                        THEN Append(next, Frame("wikipedia._crawl_article", f.cur, "", f.d + 1, 0))
                        ELSE next)
    /\ api' = NoResponse
    /\ UNCHANGED <<jobs, nodes, tasks, clock, calls, limiter, fetchers, graph>>

\* _crawl_article: _fetch_article_categories
Wiki_FetchCategories(r) ==
    /\ At(r, "wikipedia._crawl_article", "cats")
    /\ \E n \in 0..MaxPage, err \in BOOLEAN :
         /\ err => n = 0
         /\ Fetched(r, SetTop(runs[r].stack, [Top(r) EXCEPT !.pc = "catloop", !.todo = n]), err)
    /\ api' = NoResponse
    /\ UNCHANGED <<jobs, nodes, edges, tasks, clock, calls, limiter, fetchers, graph>>

\* _crawl_article: the head of "for category in categories" up to the
\* category node
Wiki_NextCategory(r) ==
    /\ At(r, "wikipedia._crawl_article", "catloop")
    /\ LET s == runs[r].stack
           f == Top(r)
       IN  IF f.todo = 0 \/ BudgetHit(r)
           THEN Skip(r, Pop(s)) /\ nodes' = nodes
           ELSE \E title \in Names \cup {NoName} :
                  IF title = NoName
                  THEN Skip(r, SetTop(s, [f EXCEPT !.todo = @ - 1])) /\ nodes' = nodes
                  ELSE LET next(id) == SetTop(s, [f EXCEPT !.pc = "catedge", !.cur = title,
                                                           !.curnode = id])
                       IN  LET res == NodeResult(r, "category", Lower(title), title, EmptyMeta)
                           IN  NodeUpserted(r, res, next(res.node))
    /\ api' = NoResponse
    /\ UNCHANGED <<jobs, edges, tasks, clock, calls, limiter, fetchers, graph>>

\* _crawl_article: the in_category edge
Wiki_CreateCategoryEdge(r) ==
    /\ At(r, "wikipedia._crawl_article", "catedge")
    /\ LET f == Top(r)
       IN  EdgeUpserted(r, f.node, f.curnode, "in_category", RatOne, EmptyMeta,
                        SetTop(runs[r].stack, [f EXCEPT !.pc = "catloop", !.todo = @ - 1]))
    /\ api' = NoResponse
    /\ UNCHANGED <<jobs, nodes, tasks, clock, calls, limiter, fetchers, graph>>

WikiStep(r) ==
    \/ Wiki_FetchArticleInfo(r)
    \/ Wiki_CreateArticleNode(r)
    \/ Wiki_FetchLinks(r)
    \/ Wiki_NextLink(r)
    \/ Wiki_CreateLinkedNode(r)
    \/ Wiki_CreateLinkEdge(r)
    \/ Wiki_FetchCategories(r)
    \/ Wiki_NextCategory(r)
    \/ Wiki_CreateCategoryEdge(r)

---------------------------------------------------------------------------
(* Store failures *)

\* The steps of a traversal that are one node or edge upsert.
UpsertPoints ==
    {<<"reddit._crawl_subreddit", "node">>, <<"reddit._crawl_user", "subedge">>,
     <<"github._crawl_user", "node">>, <<"github._crawl_user", "owns">>,
     <<"github._crawl_repository", "node">>,
     <<"wikipedia._crawl_article", "node">>, <<"wikipedia._crawl_article", "linkedge">>}

\* The flush of an upsert raises: nothing is written and the exception
\* leaves the traversal.
StoreError(r) ==
    /\ runs[r].pc = "traverse"
    /\ <<Top(r).fn, Top(r).pc>> \in UpsertPoints
    /\ \E desc \in StoreErrors : runs' = [runs EXCEPT ![r] = RaiseRun(runs[r], desc, "upsert")]
    /\ api' = NoResponse
    /\ UNCHANGED <<jobs, nodes, edges, tasks, clock, calls, limiter, fetchers, graph>>

---------------------------------------------------------------------------
(* Specification *)

Init ==
    /\ jobs = << >>
    /\ nodes = {}
    /\ edges = {}
    /\ runs = [r \in Runs |-> IdleRun]
    /\ tasks = << >>
    /\ api = NoResponse
    /\ clock = 0
    /\ calls = << >>
    /\ limiter = NoLimiter
    /\ fetchers = << >>
    /\ graph = NoQuery

\* The engine's own steps of a crawl() call.
Lifecycle(r) ==
    \/ SetRunning(r)
    \/ Complete(r)
    \/ Commit(r)
    \/ Fail(r)
    \/ CommitFailed(r)

\* Crawl runs of the three crawlers, called directly, against cancel requests.
Next ==
    \/ \E r \in Runs : CallCrawl(r)
    \/ \E r \in Runs : Lifecycle(r)
    \/ \E r \in Runs : RedditStep(r)
    \/ \E r \in Runs : GitHubStep(r)
    \/ \E r \in Runs : WikiStep(r)
    \/ \E r \in Runs : StoreError(r)
    \/ \E j \in JobIds : cancel_crawl_job(j)

Spec == Init /\ [][Next]_vars

\* The crawl API: start_crawl, the background task it schedules (which runs
\* the Reddit crawler only) and cancel requests.
NextApi ==
    \/ start_crawl
    \/ \E t \in 1..Len(tasks) : RunTaskReddit(t)
    \/ \E t \in 1..Len(tasks) : RunTaskUnsupported(t)
    \/ \E r \in Runs : Lifecycle(r)
    \/ \E r \in Runs : RedditStep(r)
    \/ \E r \in Runs : StoreError(r)
    \/ \E j \in JobIds : cancel_crawl_job(j)

SpecApi == Init /\ [][NextApi]_vars

---------------------------------------------------------------------------
(* Direct upsert calls *)

\* Argument values of the direct calls.
UpsertMetas == {EmptyMeta, [k1 |-> 1, k2 |-> 1], [k1 |-> 2]}
UpsertWeights == {Rat(2, 5), Rat(4, 5), Rat(1, 5)}

NodeCallIndexes == {i \in 1..Len(calls) : calls[i].op = "create_or_update_node"}

EdgeCallIndexes == {i \in 1..Len(calls) : calls[i].op = "create_edge"}

\* Crawler c awaits self.create_or_update_node(...).
UpsertNode(c) ==
    /\ Card(NodeCallIndexes) < MaxNodeCalls
    /\ \E entity_id \in {"a", "b"}, metadata \in UpsertMetas :
         LET res == create_or_update_node(nodes, runs[c].dn, runs[c].source, "user",
                                          entity_id, entity_id, metadata)
         IN  /\ nodes' = res.nodes
             /\ runs' = [runs EXCEPT ![c].dn = res.dn]
             /\ calls' = Append(calls, [op |-> "create_or_update_node", crawler |-> c,
                                        key |-> <<runs[c].source, "user", entity_id>>,
                                        metadata |-> metadata, weight |-> RatZero,
                                        result |-> res.node, selects |-> res.selects])
    /\ UNCHANGED <<jobs, edges, tasks, api, clock, limiter, fetchers, graph>>

\* Crawler c awaits self.create_edge(source_node, target_node, "follows", weight).
UpsertEdge(c) ==
    /\ Card(EdgeCallIndexes) < MaxEdgeCalls
    /\ \E s \in nodes, t \in nodes, weight \in UpsertWeights :
         /\ s.id < t.id
         /\ LET res == create_edge(edges, runs[c].de, s.id, t.id, "follows", weight, EmptyMeta)
            IN  /\ edges' = res.edges
                /\ runs' = [runs EXCEPT ![c].de = res.de]
                /\ calls' = Append(calls, [op |-> "create_edge", crawler |-> c,
                                           key |-> <<s.id, t.id, "follows">>,
                                           metadata |-> EmptyMeta, weight |-> weight,
                                           result |-> res.edge, selects |-> res.selects])
    /\ UNCHANGED <<jobs, nodes, tasks, api, clock, limiter, fetchers, graph>>

\* Crawler instances of one source over an empty store.
InitUpsert ==
    /\ jobs = << >>
    /\ nodes = {}
    /\ edges = {}
    /\ runs = [c \in Crawlers |-> [IdleRun EXCEPT !.source = "reddit"]]
    /\ tasks = << >>
    /\ api = NoResponse
    /\ clock = 0
    /\ calls = << >>
    /\ limiter = NoLimiter
    /\ fetchers = << >>
    /\ graph = NoQuery

NextUpsert ==
    \/ \E c \in Crawlers : UpsertNode(c)
    \/ \E c \in Crawlers : UpsertEdge(c)

SpecUpsert == InitUpsert /\ [][NextUpsert]_vars

\* The crawl API with the engine's steps weakly fair: a scheduled background
\* task runs, and a crawl() that can take a step takes one.  Requests
\* (start_crawl, cancel_crawl_job) are under no obligation to arrive.
EngineApi ==
    \/ \E t \in 1..Len(tasks) : RunTaskReddit(t)
    \/ \E t \in 1..Len(tasks) : RunTaskUnsupported(t)
    \/ \E r \in Runs : Lifecycle(r)
    \/ \E r \in Runs : RedditStep(r)

SpecApiFair == SpecApi /\ WF_vars(EngineApi)

---------------------------------------------------------------------------
(* Properties *)

Started(r) == runs[r].pc # "idle"

JobOf(r) == jobs[runs[r].job]

\* C1: at every point of every crawl run the number of discovered nodes is
\* at most max_entities.
C1_BudgetRespected ==
    \A r \in Runs : Started(r) => Card(runs[r].dn) <= runs[r].max

\* C2: once a job's status is COMPLETED, FAILED or CANCELLED, no step of the
\* engine and no cancel request changes it.
C2_TerminalIsFinal ==
    [][\A j \in 1..Len(jobs) :
          jobs[j].status \in {COMPLETED, FAILED, CANCELLED}
             => jobs'[j].status = jobs[j].status]_vars

\* C3: the job whose id start_crawl returned eventually reaches a terminal
\* state, the background task being scheduled.
C3_ReturnedJobTerminates ==
    \A t \in 1..MaxRequests :
        (Len(tasks) >= t) ~> (Len(tasks) >= t /\ is_finished(jobs[tasks[t].job]))

\* C4: after the first fetch that returns once its job was cancelled from
\* outside, the engine makes no further fetch and no further upsert.
C4_StopsAtBoundary ==
    \A r \in Runs : runs[r].obs # "late"

\* C5: a cancel request on a PENDING or RUNNING job answers 204 and leaves it
\* CANCELLED with completed_at set; on a finished job it answers 400 and
\* changes no field of any job; on an unknown id it answers 404 and changes
\* nothing.
C5_CancelContract ==
    [][\A j \in JobIds :
          cancel_crawl_job(j) =>
             IF ~Visible(j)
             THEN api'.code = 404 /\ jobs' = jobs
             ELSE IF jobs[j].status \in {PENDING, RUNNING}
             THEN /\ api'.code = 204
                  /\ jobs'[j].status = CANCELLED
                  /\ jobs'[j].completed_at # NoTime
                  /\ \A k \in 1..Len(jobs) : k # j => jobs'[k] = jobs[k]
             ELSE api'.code = 400 /\ jobs' = jobs]_vars

\* A RUNNING job has just been cancelled.
C5_Witness ==
    /\ api.op = "cancel" /\ api.code = 204
    /\ \E j \in 1..Len(jobs) :
         /\ jobs[j].status = CANCELLED
         /\ jobs[j].started_at # NoTime
         /\ jobs[j].completed_at # NoTime

\* The create_or_update_node calls made for an identity triple.
NodeCallsFor(key) == {i \in NodeCallIndexes : calls[i].key = key}

NodeKeys == {calls[i].key : i \in NodeCallIndexes}

\* The one stored node of a triple carries this metadata.
StoredMetadata(key, metadata) ==
    \E n \in nodes : NodesAt(nodes, key) = {n} /\ n.metadata = metadata

\* C6 as stated: two calls for one triple with metadata m1 then m2, by the
\* same crawler or by different ones, leave one node whose metadata is the
\* union of m1 and m2, m2 overriding.
C6_UnionMergeAnyRun ==
    \A key \in NodeKeys : \A i, j \in NodeCallsFor(key) :
        (i < j /\ NodeCallsFor(key) = {i, j} /\ calls[i].metadata # calls[j].metadata)
           => StoredMetadata(key, MergeMeta(calls[i].metadata, calls[j].metadata))

\* C6: two calls for one triple with metadata m1 then m2 leave one node; its
\* metadata is the union of m1 and m2, m2 overriding, when the second call
\* comes from another crawler instance, and m1 when it comes from the
\* instance that made the first call.
C6_UnionMergeAcrossRuns ==
    \A key \in NodeKeys : \A i, j \in NodeCallsFor(key) :
        (i < j /\ NodeCallsFor(key) = {i, j} /\ calls[i].metadata # calls[j].metadata)
           => /\ calls[j].result = calls[i].result
              /\ IF calls[i].crawler # calls[j].crawler
                 THEN StoredMetadata(key, MergeMeta(calls[i].metadata, calls[j].metadata))
                 ELSE StoredMetadata(key, calls[i].metadata)

\* Two crawlers upserted one triple with {k1: 1, k2: 1} then {k1: 2}.
C6_Witness ==
    \E i, j \in NodeCallIndexes :
        /\ i < j
        /\ calls[i].key = calls[j].key
        /\ calls[i].crawler # calls[j].crawler
        /\ calls[i].metadata = [k1 |-> 1, k2 |-> 1]
        /\ calls[j].metadata = [k1 |-> 2]
        /\ StoredMetadata(calls[i].key, [k1 |-> 2, k2 |-> 1])

\* The create_edge calls made for a (source, target, type) key.
EdgeCallsFor(key) == {i \in EdgeCallIndexes : calls[i].key = key}

EdgeKeys == {calls[i].key : i \in EdgeCallIndexes}

\* (a + b) / 2
Mean(a, b) == Rat(a.n * b.d + b.n * a.d, 2 * a.d * b.d)

\* The one stored edge of a key carries this weight.
StoredWeight(key, weight) ==
    \E e \in edges : EdgesAt(edges, key) = {e} /\ e.weight = weight

\* C7 as stated: two create_edge calls for one key with weights w1 then w2
\* leave one edge of weight (w1 + w2) / 2, and a third with w3 leaves
\* ((w1 + w2) / 2 + w3) / 2.
C7_MeanAtEachCreation ==
    \A key \in EdgeKeys : \A i, j \in EdgeCallsFor(key) :
        /\ (i < j /\ EdgeCallsFor(key) = {i, j})
              => StoredWeight(key, Mean(calls[i].weight, calls[j].weight))
        /\ \A l \in EdgeCallsFor(key) :
              (i < j /\ j < l /\ EdgeCallsFor(key) = {i, j, l})
                 => StoredWeight(key, Mean(Mean(calls[i].weight, calls[j].weight),
                                           calls[l].weight))

\* C7: the same for calls made by pairwise different crawler instances; a
\* second call by the instance that made the first returns None and leaves
\* the weight w1.
C7_MeanAtEachRediscovery ==
    \A key \in EdgeKeys : \A i, j \in EdgeCallsFor(key) :
        /\ (i < j /\ EdgeCallsFor(key) = {i, j})
              => IF calls[i].crawler # calls[j].crawler
                 THEN StoredWeight(key, Mean(calls[i].weight, calls[j].weight))
                 ELSE calls[j].result = 0 /\ StoredWeight(key, calls[i].weight)
        /\ \A l \in EdgeCallsFor(key) :
              (/\ i < j /\ j < l /\ EdgeCallsFor(key) = {i, j, l}
               /\ Card({calls[i].crawler, calls[j].crawler, calls[l].crawler}) = 3)
                 => StoredWeight(key, Mean(Mean(calls[i].weight, calls[j].weight),
                                           calls[l].weight))

\* Three crawlers created one edge with weights 0.4, 0.8 and 0.2: it holds
\* 0.4, which is neither the sum nor the last weight nor the mean of the three.
C7_Witness ==
    \E i, j, l \in EdgeCallIndexes :
        /\ i < j /\ j < l
        /\ EdgeCallsFor(calls[i].key) = {i, j, l}
        /\ Card({calls[i].crawler, calls[j].crawler, calls[l].crawler}) = 3
        /\ calls[i].weight = Rat(2, 5)
        /\ calls[j].weight = Rat(4, 5)
        /\ calls[l].weight = Rat(1, 5)
        /\ StoredWeight(calls[i].key, Rat(2, 5))

\* C8: every stored edge has a weight >= 0.
C8_WeightNonNegative ==
    \A e \in edges : e.weight.n >= 0

\* C9: the job of a run in which a fetch raised is never COMPLETED.
C9_FetchFailureFails ==
    \A r \in Runs : (Started(r) /\ runs[r].fetch_failed) => JobOf(r).status # COMPLETED

---------------------------------------------------------------------------
(* RateLimiter and fetch_with_rate_limit *)

\* Time is counted in ticks of 0.1 s, tokens in hundredths of a token and
\* rates in tenths of a request per second, so that the float arithmetic of
\* acquire() is exact integer arithmetic.
TicksPerSecond == 10
PollTicks == 1            \* asyncio.sleep(0.1)
CoolDownTicks == 600      \* asyncio.sleep(60)
TokenUnit == 100          \* "1" in "self.tokens < 1" and "self.tokens -= 1"

Callers == 1..MaxCallers

\* requests_per_second: 0.5, 1.0 (RedditCrawler in run_crawler_task) and 1.5
Rates == {5, 10, 15}

\* requests_per_second as a token count
Capacity(rate) == rate * TicksPerSecond

\* elapsed * self.requests_per_second, elapsed being ticks
Accrued(ticks, rate) == ticks * rate

\* Ticks after which min() caps the refill whatever the rate and the tokens.
FullTicks == TicksPerSecond

\* RateLimiter.__init__; since is now - updated_at, holder and waiters the
\* state of self.lock, refilled the tokens added so far, burst the acquire()
\* calls that returned since the clock last advanced.
NewLimiter(rate) ==
    [rate |-> rate, tokens |-> Capacity(rate), since |-> 0, holder |-> 0,
     waiters |-> << >>, refilled |-> 0, burst |-> 0]

\* min(self.requests_per_second, self.tokens + elapsed * self.requests_per_second)
Refilled(l) == Min(Capacity(l.rate), l.tokens + Accrued(l.since, l.rate))

\* Variant of HasToken that lets a fraction of a token pass.
HasAnyToken(l) == l.tokens > 0

\* not (self.tokens < 1)
HasToken(l) == l.tokens >= TokenUnit

\* A task that has not called fetch_with_rate_limit yet.  attempts counts the
\* requests sent, acquired the acquire() calls that returned, slept the
\* backoff sleeps; timer is the time left of the sleep the task is in.
IdleFetcher ==
    [pc |-> "idle", timer |-> 0, attempts |-> 0, acquired |-> 0, slept |-> 0]

\* Variant of RetryEntry that sends the retry at once.
RetryWithoutAcquire == "request"

\* return await self.fetch_with_rate_limit(url, headers, params)
RetryEntry == "acquire"

\* self.lock released: the first waiter, if any, holds it next.
Released(l) ==
    IF l.waiters = << >> THEN [l EXCEPT !.holder = 0]
    ELSE [l EXCEPT !.holder = Head(l.waiters), !.waiters = Tail(l.waiters)]

\* The fetchers after the lock went from caller c to the first waiter.
Handed(fs, l) ==
    IF l.waiters = << >> THEN fs
    ELSE [fs EXCEPT ![Head(l.waiters)].pc = "bucket"]

\* A task calls fetch_with_rate_limit.
Fetch_Call(c) ==
    /\ fetchers[c].pc = "idle"
    /\ fetchers' = [fetchers EXCEPT ![c].pc = "acquire"]
    /\ UNCHANGED <<jobs, nodes, edges, runs, tasks, api, clock, calls, limiter, graph>>

\* acquire(): async with self.lock
Acquire_Enter(c) ==
    /\ fetchers[c].pc = "acquire"
    /\ IF limiter.holder = 0
       THEN /\ limiter' = [limiter EXCEPT !.holder = c]
            /\ fetchers' = [fetchers EXCEPT ![c].pc = "bucket"]
       ELSE /\ limiter' = [limiter EXCEPT !.waiters = Append(@, c)]
            /\ fetchers' = [fetchers EXCEPT ![c].pc = "lock"]
    /\ UNCHANGED <<jobs, nodes, edges, runs, tasks, api, clock, calls, graph>>

\* acquire(): the while loop from its head to the next await or to the
\* return: consume a token, or refill and then consume or sleep.
Acquire_Step(c) ==
    /\ fetchers[c].pc = "bucket"
    /\ limiter.holder = c
    /\ LET full == HasToken(limiter)
           tokens == IF full THEN limiter.tokens ELSE Refilled(limiter)
           l == IF full THEN limiter
                ELSE [limiter EXCEPT !.tokens = tokens, !.since = 0,
                                     !.refilled = @ + (tokens - limiter.tokens)]
       IN  IF ~HasToken(l)
           THEN /\ limiter' = l
                /\ fetchers' = [fetchers EXCEPT ![c].pc = "poll", ![c].timer = PollTicks]
           ELSE /\ limiter' = Released([l EXCEPT !.tokens = @ - TokenUnit,
                                                !.burst = @ + 1])
                /\ fetchers' = [Handed(fetchers, l) EXCEPT ![c].pc = "request",
                                                           ![c].acquired = @ + 1]
    /\ UNCHANGED <<jobs, nodes, edges, runs, tasks, api, clock, calls, graph>>

\* A sleep is over: asyncio.sleep(0.1) resumes the while loop,
\* asyncio.sleep(60) is followed by the recursive call.
Wake(c) ==
    /\ fetchers[c].pc \in {"poll", "backoff"}
    /\ fetchers[c].timer = 0
    /\ fetchers' = [fetchers EXCEPT ![c].pc = IF @ = "poll" THEN "bucket" ELSE RetryEntry]
    /\ UNCHANGED <<jobs, nodes, edges, runs, tasks, api, clock, calls, limiter, graph>>

\* self.session.get(...): the request is sent and answered.  A 429 starts the
\* backoff sleep; another error status or a transport error is raised.
Respond(c) ==
    /\ fetchers[c].pc = "request"
    /\ \E response \in {"ok", "429", "error"} :
         /\ response = "429" => fetchers[c].attempts + 1 < MaxAttempts
         /\ fetchers' = [fetchers EXCEPT ![c] =
               [@ EXCEPT !.attempts = @ + 1,
                         !.pc = IF response = "ok" THEN "returned"
                                ELSE IF response = "error" THEN "raised" ELSE "backoff",
                         !.timer = IF response = "429" THEN CoolDownTicks ELSE 0,
                         !.slept = IF response = "429" THEN @ + 1 ELSE @]]
    /\ UNCHANGED <<jobs, nodes, edges, runs, tasks, api, clock, calls, limiter, graph>>

Sleeping == {c \in Callers : fetchers[c].timer > 0}

MinOf(S) == CHOOSE x \in S : \A y \in S : x <= y

\* The event loop's clock advances: to the next wake-up when a task sleeps,
\* by a polling interval or a full second otherwise.
Tick ==
    /\ \E d \in {PollTicks, FullTicks} \cup {fetchers[c].timer : c \in Sleeping} :
         /\ Sleeping # {} => d = MinOf({fetchers[c].timer : c \in Sleeping})
         /\ limiter' = [limiter EXCEPT !.since = Min(FullTicks, @ + d), !.burst = 0]
         /\ fetchers' = [c \in Callers |->
                           [fetchers[c] EXCEPT !.timer = IF @ > d THEN @ - d ELSE 0]]
    /\ UNCHANGED <<jobs, nodes, edges, runs, tasks, api, clock, calls, graph>>

\* One crawler's limiter, full, and the tasks that will fetch through it.
InitFetch ==
    /\ jobs = << >>
    /\ nodes = {}
    /\ edges = {}
    /\ runs = [r \in Runs |-> IdleRun]
    /\ tasks = << >>
    /\ api = NoResponse
    /\ clock = 0
    /\ calls = << >>
    /\ limiter \in {NewLimiter(rate) : rate \in Rates}
    /\ fetchers = [c \in Callers |-> IdleFetcher]
    /\ graph = NoQuery

FetcherStep(c) ==
    \/ Acquire_Enter(c)
    \/ Acquire_Step(c)
    \/ Wake(c)
    \/ Respond(c)

NextFetch ==
    \/ \E c \in Callers : Fetch_Call(c)
    \/ \E c \in Callers : FetcherStep(c)
    \/ Tick

SpecFetch == InitFetch /\ [][NextFetch]_vars

\* Time advances and a task that can run does.
SpecFetchFair ==
    SpecFetch /\ WF_vars(Tick) /\ \A c \in Callers : WF_vars(FetcherStep(c))

\* C11: a fetch call sends at most two requests and sleeps at most one
\* backoff, however many 429 responses it receives.
C11_SingleRetry ==
    \A c \in Callers : fetchers[c].attempts <= 2 /\ fetchers[c].slept <= 1

\* C12: every acquire() call eventually returns, whatever the rate and
\* however many tasks share the limiter.
C12_AcquireReturns ==
    \A c \in Callers :
        (fetchers[c].pc \in {"acquire", "lock", "bucket", "poll"})
           ~> (fetchers[c].pc = "request")

RECURSIVE SumAcquired(_)
SumAcquired(S) ==
    IF S = {} THEN 0
    ELSE LET c == CHOOSE x \in S : TRUE
         IN  fetchers[c].acquired + SumAcquired(S \ {c})

\* C13: the token count stays between 0 and the capacity, every acquire()
\* that returned paid one whole token of what the bucket held or was
\* refilled with, and only the task holding the lock is inside the bucket.
C13_TokensBounded ==
    /\ limiter.tokens >= 0
    /\ limiter.tokens <= Capacity(limiter.rate)
    /\ limiter.tokens =
          Capacity(limiter.rate) + limiter.refilled - TokenUnit * SumAcquired(Callers)
    /\ \A c \in Callers :
          fetchers[c].pc \in {"bucket", "poll"} => limiter.holder = c

\* Two tasks share a limiter of 1.5 requests per second: both acquired a
\* token, the second after a refill.
C13_Witness ==
    /\ limiter.rate = 15
    /\ limiter.refilled > 0
    /\ \A c \in Callers : fetchers[c].acquired >= 1

\* C14: every request sent was preceded by an acquire() of its own: the
\* acquire() calls that returned are the requests sent, plus the one about
\* to be sent.
C14_AcquireBeforeRequest ==
    \A c \in Callers :
        fetchers[c].acquired =
            fetchers[c].attempts + (IF fetchers[c].pc = "request" THEN 1 ELSE 0)

\* The retry after a 429 backoff has been sent, with a second token.
C14_Witness ==
    \E c \in Callers :
        /\ fetchers[c].slept = 1
        /\ fetchers[c].attempts = 2
        /\ fetchers[c].acquired = 2

---------------------------------------------------------------------------
(* Graph queries: query_graph, get_neighbors, find_shortest_path          *)
(*                                                                         *)
(* One request is served against a stored graph nothing writes to while   *)
(* the request runs.  The rows a SELECT returns come in any order, and a  *)
(* LIMIT keeps any rows of the match.  The response lists of edges are    *)
(* kept as sets: their order is not modelled.                             *)

MaxGraphNodes == 4    \* SpecGraph: stored nodes
MaxQueryDepth == 2    \* SpecGraph: largest depth of a subgraph query
MaxNodesArg == 5      \* SpecGraph: largest max_nodes of a subgraph query
MaxPathDepth == 3     \* SpecGraph: largest max_depth of a path query
MaxNeighbors == 2     \* SpecGraph: largest max_neighbors of a neighbors query

NotFound == 404
Ok == 200
ServerError == 500

GraphNodeIds == 1..MaxGraphNodes

\* A uuid no stored node has.
AbsentId == MaxGraphNodes + 1

RECURSIVE NodeName(_)
NodeName(i) == IF i = 1 THEN "a" ELSE Join(NodeName(i - 1), "b")

GraphNode(i) ==
    [id |-> i, source |-> "github", entity_type |-> "user",
     entity_id |-> NodeName(i), display_name |-> NodeName(i), metadata |-> EmptyMeta]

GraphEdge(id, s, t, type, weight) ==
    [id |-> id, source_node_id |-> s, target_node_id |-> t,
     relationship_type |-> type, weight |-> weight, metadata |-> EmptyMeta]

\* The edges a stored graph is drawn from: a start with three outgoing
\* edges, a chain 1 -> 2 -> 3 -> 4, a second edge of another type between
\* the same nodes, an edge back and a self-loop.  (source, target, type) is
\* unique, as the table requires.
GraphEdges ==
    { GraphEdge(1, 1, 2, "follows", Rat(1, 2)),
      GraphEdge(2, 1, 3, "follows", Rat(1, 1)),
      GraphEdge(3, 1, 4, "follows", Rat(1, 4)),
      GraphEdge(4, 2, 3, "owns", Rat(3, 4)),
      GraphEdge(5, 3, 4, "follows", Rat(1, 3)),
      GraphEdge(6, 2, 1, "follows", Rat(1, 1)),
      GraphEdge(7, 1, 2, "owns", Rat(1, 5)),
      GraphEdge(8, 1, 1, "follows", Rat(1, 1)) }

Directions == {"outgoing", "incoming", "both"}

\* relationship_types: None or [] (the empty set) or a list of types.
RelationFilters == {{}, {"follows"}}

Exists(id) == \E n \in nodes : n.id = id

\* if query.relationship_types: ... .where(Edge.relationship_type.in_(...))
Matches(e, relationship_types) ==
    relationship_types # {} => e.relationship_type \in relationship_types

\* select(Edge).where(Edge.source_node_id == id), filtered
OutgoingOf(id, relationship_types) ==
    {e \in edges : e.source_node_id = id /\ Matches(e, relationship_types)}

\* select(Edge).where(Edge.target_node_id == id), filtered
IncomingOf(id, relationship_types) ==
    {e \in edges : e.target_node_id = id /\ Matches(e, relationship_types)}

\* Variant of EdgesOf that selects the edges at id in both directions.
EdgesOfBoth(id, direction, relationship_types) ==
    OutgoingOf(id, relationship_types) \cup IncomingOf(id, relationship_types)

\* The edge query of one BFS iteration, by direction ("both": the union).
EdgesOf(id, direction, relationship_types) ==
    (IF direction \in {"outgoing", "both"} THEN OutgoingOf(id, relationship_types) ELSE {})
      \cup
    (IF direction \in {"incoming", "both"} THEN IncomingOf(id, relationship_types) ELSE {})

\* The orders in which a result set may be returned.
RECURSIVE Orders(_)
Orders(S) ==
    IF S = {} THEN {<< >>}
    ELSE UNION {{<<x>> \o s : s \in Orders(S \ {x})} : x \in S}

\* Variant of Continue that runs until the queue is empty.
ContinueUncapped(q) == q.queue # << >>

\* while queue and len(visited_nodes) < query.max_nodes
Continue(q) == q.queue # << >> /\ Cardinality(q.visited_nodes) < q.max_nodes

\* The loop test of query_graph: another iteration, or the response.
Looped(q) == IF Continue(q) THEN q ELSE [q EXCEPT !.pc = "done", !.status = Ok]

\* next_node_id of an edge met from current_id
NextNodeId(edge, current_id, direction) ==
    IF direction = "outgoing" \/ edge.source_node_id = current_id
    THEN edge.target_node_id
    ELSE edge.source_node_id

\* for edge in edges: ... of query_graph, over the rows in the order es
RECURSIVE Explored(_, _, _, _)
Explored(q, current_id, current_depth, es) ==
    IF es = << >> THEN q
    ELSE LET edge == Head(es)
             next_node_id == NextNodeId(edge, current_id, q.direction)
             q1 == IF edge.id \in q.visited_edges THEN q
                   ELSE [q EXCEPT
                           !.visited_edges = @ \cup {edge.id},
                           !.edges_result = @ \cup {edge},
                           !.visited_nodes = @ \cup {next_node_id},
                           !.queue = IF next_node_id \notin q.visited_nodes
                                     THEN Append(@, <<next_node_id, current_depth + 1>>)
                                     ELSE @]
         IN  Explored(q1, current_id, current_depth, Tail(es))

\* query_graph up to its first awaited iteration: 404, or the BFS state.
Query_Call ==
    /\ graph.op = "none"
    /\ \E start_node_id \in GraphNodeIds \cup {AbsentId}, depth \in 1..MaxQueryDepth,
          max_nodes \in 1..MaxNodesArg, direction \in Directions,
          relationship_types \in RelationFilters :
         LET q == [op |-> "query", pc |-> "loop", status |-> 0,
                   start_node_id |-> start_node_id, depth |-> depth,
                   max_nodes |-> max_nodes, direction |-> direction,
                   relationship_types |-> relationship_types,
                   visited_nodes |-> {start_node_id}, visited_edges |-> {},
                   queue |-> << <<start_node_id, 0>> >>,
                   nodes_result |-> << >>, edges_result |-> {}]
         IN  graph' = IF Exists(start_node_id)
                      THEN Looped(q)
                      ELSE [q EXCEPT !.pc = "done", !.status = NotFound,
                                     !.visited_nodes = {}, !.queue = << >>]
    /\ UNCHANGED <<jobs, nodes, edges, runs, tasks, api, clock, calls, limiter, fetchers>>

\* One iteration of the BFS loop of query_graph, and the loop test after it.
\* scalar_one() raises NoResultFound when the dequeued node has no row; no
\* handler catches it, so the request is answered 500.
Query_Step ==
    /\ graph.op = "query"
    /\ graph.pc = "loop"
    /\ LET current_id == Head(graph.queue)[1]
           current_depth == Head(graph.queue)[2]
           q == [graph EXCEPT !.queue = Tail(@),
                              !.nodes_result = Append(@, current_id)]
       IN  IF ~Exists(current_id)
           THEN graph' = [graph EXCEPT !.queue = Tail(@), !.pc = "done",
                                       !.status = ServerError]
           ELSE IF current_depth >= graph.depth
           THEN graph' = Looped(q)
           ELSE \E es \in Orders(EdgesOf(current_id, graph.direction,
                                         graph.relationship_types)) :
                  graph' = Looped(Explored(q, current_id, current_depth, es))
    /\ UNCHANGED <<jobs, nodes, edges, runs, tasks, api, clock, calls, limiter, fetchers>>

\* Variant of Limited that returns every row of the match.
Unlimited(rows, max_neighbors) == {rows}

\* .limit(query.max_neighbors): the results the query may give
Limited(rows, max_neighbors) ==
    {s \in SUBSET rows : Cardinality(s) = Min(max_neighbors, Cardinality(rows))}

\* select(Node).where(Node.id.in_(ids))
NodesIn(ids) == {n \in nodes : n.id \in ids}

\* get_neighbors
Neighbors_Call ==
    /\ graph.op = "none"
    /\ \E node_id \in GraphNodeIds \cup {AbsentId}, direction \in Directions,
          relationship_types \in RelationFilters, max_neighbors \in 1..MaxNeighbors :
         LET r == [op |-> "neighbors", pc |-> "done", status |-> NotFound,
                   node_id |-> node_id, direction |-> direction,
                   relationship_types |-> relationship_types,
                   max_neighbors |-> max_neighbors,
                   outgoing_edges |-> {}, incoming_edges |-> {},
                   neighbors |-> {}, count |-> 0]
         IN  IF ~Exists(node_id)
             THEN graph' = r
             ELSE \E outgoing_edges \in
                       (IF direction \in {"outgoing", "both"}
                        THEN Limited(OutgoingOf(node_id, relationship_types), max_neighbors)
                        ELSE {{}}),
                     incoming_edges \in
                       (IF direction \in {"incoming", "both"}
                        THEN Limited(IncomingOf(node_id, relationship_types), max_neighbors)
                        ELSE {{}}) :
                    LET neighbor_ids == {e.target_node_id : e \in outgoing_edges}
                                          \cup {e.source_node_id : e \in incoming_edges}
                        neighbors == NodesIn(neighbor_ids)
                    IN  graph' = [r EXCEPT !.status = Ok,
                                           !.outgoing_edges = outgoing_edges,
                                           !.incoming_edges = incoming_edges,
                                           !.neighbors = neighbors,
                                           !.count = Cardinality(neighbors)]
    /\ UNCHANGED <<jobs, nodes, edges, runs, tasks, api, clock, calls, limiter, fetchers>>

\* Variant of AddedWeight that keeps the weight of the last edge only.
LastWeight(total_weight, weight) == weight

\* total_weight + edge.weight
AddedWeight(total_weight, weight) ==
    Rat(total_weight.n * weight.d + weight.n * total_weight.d, total_weight.d * weight.d)

\* Variant of AtDepthLimit that stops one level early.
NearDepthLimit(depth, max_depth) == depth + 1 >= max_depth

\* if depth >= query.max_depth: continue
AtDepthLimit(depth, max_depth) == depth >= max_depth

\* while queue: of find_shortest_path; the queue ran empty: 404.
PathLooped(p) ==
    IF p.queue # << >> THEN p ELSE [p EXCEPT !.pc = "done", !.status = NotFound]

\* for edge in edges: ... of find_shortest_path, over the rows in the order es
RECURSIVE Expanded(_, _, _)
Expanded(p, item, es) ==
    IF es = << >> THEN p
    ELSE LET edge == Head(es)
             next_id == edge.target_node_id
             p1 == IF next_id \in p.visited THEN p
                   ELSE [p EXCEPT
                           !.visited = @ \cup {next_id},
                           !.queue = Append(@,
                              [id |-> next_id,
                               path |-> Append(item.path, next_id),
                               path_edges |-> Append(item.path_edges, edge),
                               total_weight |-> AddedWeight(item.total_weight, edge.weight),
                               depth |-> item.depth + 1])]
         IN  Expanded(p1, item, Tail(es))

\* find_shortest_path up to its BFS loop: 404, or the BFS state.
Path_Call ==
    /\ graph.op = "none"
    /\ \E source_node_id \in GraphNodeIds \cup {AbsentId},
          target_node_id \in GraphNodeIds \cup {AbsentId},
          max_depth \in 1..MaxPathDepth :
         LET p == [op |-> "path", pc |-> "loop", status |-> 0,
                   source_node_id |-> source_node_id,
                   target_node_id |-> target_node_id, max_depth |-> max_depth,
                   visited |-> {source_node_id},
                   queue |-> << [id |-> source_node_id, path |-> <<source_node_id>>,
                                 path_edges |-> << >>, total_weight |-> RatZero,
                                 depth |-> 0] >>,
                   path |-> << >>, edges |-> {}, length |-> 0,
                   total_weight |-> RatZero]
         IN  graph' = IF Exists(source_node_id) /\ Exists(target_node_id)
                      THEN p
                      ELSE [p EXCEPT !.pc = "done", !.status = NotFound,
                                     !.visited = {}, !.queue = << >>]
    /\ UNCHANGED <<jobs, nodes, edges, runs, tasks, api, clock, calls, limiter, fetchers>>

\* One iteration of the BFS loop of find_shortest_path, and the loop test
\* after it.
Path_Step ==
    /\ graph.op = "path"
    /\ graph.pc = "loop"
    /\ LET item == Head(graph.queue)
           p == [graph EXCEPT !.queue = Tail(@)]
       IN  IF item.id = graph.target_node_id
           THEN graph' = [p EXCEPT
                            !.pc = "done", !.status = Ok,
                            !.path = item.path,
                            !.edges = {e \in edges :
                                         \E i \in 1..Len(item.path_edges) :
                                            item.path_edges[i].id = e.id},
                            !.length = Len(item.path) - 1,
                            !.total_weight = item.total_weight]
           ELSE IF AtDepthLimit(item.depth, graph.max_depth)
           THEN graph' = PathLooped(p)
           ELSE \E es \in Orders(OutgoingOf(item.id, {})) :
                  graph' = PathLooped(Expanded(p, item, es))
    /\ UNCHANGED <<jobs, nodes, edges, runs, tasks, api, clock, calls, limiter, fetchers>>

\* A stored graph and no request yet.
InitGraph ==
    /\ jobs = << >>
    /\ nodes = {GraphNode(i) : i \in GraphNodeIds}
    /\ edges \in SUBSET GraphEdges
    /\ runs = [r \in Runs |-> IdleRun]
    /\ tasks = << >>
    /\ api = NoResponse
    /\ clock = 0
    /\ calls = << >>
    /\ limiter = NoLimiter
    /\ fetchers = << >>
    /\ graph = NoQuery

NextGraph ==
    \/ Query_Call
    \/ Query_Step
    \/ Neighbors_Call
    \/ Path_Call
    \/ Path_Step

SpecGraph == InitGraph /\ [][NextGraph]_vars

---------------------------------------------------------------------------
(* Reference definitions the graph properties are stated with             *)

\* The far endpoints of the edges the subgraph query follows from id.
Adjacent(id, direction, relationship_types) ==
    {NextNodeId(e, id, direction) : e \in EdgesOf(id, direction, relationship_types)}

\* The nodes within k hops of the nodes S.
RECURSIVE Within(_, _, _, _)
Within(S, k, direction, relationship_types) ==
    IF k = 0 THEN S
    ELSE Within(S \cup UNION {Adjacent(id, direction, relationship_types) : id \in S},
                k - 1, direction, relationship_types)

\* The minimum number of outgoing-edge hops from s to t; more than
\* MaxGraphNodes when there is no path.
Distance(s, t) ==
    LET ks == {k \in 0..MaxGraphNodes : t \in Within({s}, k, "outgoing", {})}
    IN  IF ks = {} THEN MaxGraphNodes + 1 ELSE MinOf(ks)

\* The sum of the weights of the edges S.
RECURSIVE SumWeights(_)
SumWeights(S) ==
    IF S = {} THEN RatZero
    ELSE LET e == CHOOSE x \in S : TRUE
             rest == SumWeights(S \ {e})
         IN  Rat(rest.n * e.weight.d + e.weight.n * rest.d, rest.d * e.weight.d)

Responded(op) == graph.op = op /\ graph.pc = "done"

Returned(op) == Responded(op) /\ graph.status = Ok

ReturnedNodes == {graph.nodes_result[i] : i \in 1..Len(graph.nodes_result)}

\* The nodes within the requested depth of the start node of the query.
QueryReach == Within({graph.start_node_id}, graph.depth, graph.direction,
                     graph.relationship_types)

\* The edges, in the requested direction and matching the filter, at the
\* nodes the query expands (depth below the requested depth).
QueryEdges ==
    UNION {EdgesOf(id, graph.direction, graph.relationship_types) :
             id \in Within({graph.start_node_id}, graph.depth - 1, graph.direction,
                           graph.relationship_types)}

QueryExact == ReturnedNodes = QueryReach /\ graph.edges_result = QueryEdges

\* query_graph returns exactly the nodes within depth and the edges at the
\* expanded nodes when fewer than max_nodes nodes are within depth.
QueryExactUnderCap ==
    Returned("query") /\ Cardinality(QueryReach) < graph.max_nodes => QueryExact

---------------------------------------------------------------------------
(* Properties of the graph queries *)

\* C15: the subgraph query returns at most max_nodes nodes, each once, for
\* every stored graph, depth, max_nodes, direction and relation filter.
C15_NodesCapped ==
    graph.op = "query" =>
        /\ Len(graph.nodes_result) <= graph.max_nodes
        /\ Cardinality(ReturnedNodes) = Len(graph.nodes_result)

\* C15 witness: a response with two nodes or more, of a search that had
\* discovered more than max_nodes nodes.
C15_Witness ==
    /\ Returned("query")
    /\ Cardinality(graph.visited_nodes) > graph.max_nodes
    /\ Len(graph.nodes_result) >= 2

\* C16: every edge the subgraph query returns has its source and its target
\* among the returned nodes; an edge to a node the max_nodes cutoff left
\* out is not returned.
C16_EdgesWithinNodes ==
    Returned("query") =>
        \A e \in graph.edges_result :
            e.source_node_id \in ReturnedNodes /\ e.target_node_id \in ReturnedNodes

\* C17: when at most max_nodes nodes are within depth hops of the start, the
\* subgraph query returns exactly those nodes and exactly the edges at the
\* nodes of depth below the requested depth.
C17_ExactAtCap ==
    Returned("query") /\ Cardinality(QueryReach) <= graph.max_nodes => QueryExact

\* C18: a returned path starts at the source, ends at the target, joins
\* consecutive nodes by returned stored edges in their direction, repeats
\* no node, has length = number of edges = the minimum number of outgoing
\* hops, and total_weight = the sum of the weights of its edges.
C18_ShortestPath ==
    Returned("path") =>
        LET p == graph.path
        IN  /\ p[1] = graph.source_node_id
            /\ p[Len(p)] = graph.target_node_id
            /\ graph.edges \subseteq edges
            /\ \A i \in 1..(Len(p) - 1) :
                 \E e \in graph.edges :
                    e.source_node_id = p[i] /\ e.target_node_id = p[i + 1]
            /\ \A i, j \in 1..Len(p) : p[i] = p[j] => i = j
            /\ graph.length = Len(p) - 1
            /\ graph.length = Cardinality(graph.edges)
            /\ graph.length = Distance(graph.source_node_id, graph.target_node_id)
            /\ graph.total_weight = SumWeights(graph.edges)

\* C18 witness: the path 1 -> 2 -> 3 -> 4 of three edges is returned.
C18_Witness ==
    /\ Returned("path")
    /\ graph.path = <<1, 2, 3, 4>>
    /\ graph.length = 3

\* C19: find_shortest_path answers NotFound exactly when the source or the
\* target is absent or the target is more than max_depth outgoing hops from
\* the source (or unreachable); at max_depth hops it is found.
C19_NotFoundExactly ==
    Responded("path") =>
        (graph.status = NotFound <=>
            \/ ~Exists(graph.source_node_id)
            \/ ~Exists(graph.target_node_id)
            \/ Distance(graph.source_node_id, graph.target_node_id) > graph.max_depth)

\* C19 witness: a target exactly max_depth (two or more) hops away is found.
C19_Witness ==
    /\ Returned("path")
    /\ graph.max_depth >= 2
    /\ Distance(graph.source_node_id, graph.target_node_id) = graph.max_depth

\* C20: the neighbors query returns at most max_neighbors outgoing and at
\* most max_neighbors incoming edges, all at the queried node, of the
\* requested direction and matching the filter; the neighbors are exactly
\* the far endpoints of the returned edges and count is their number.
C20_NeighborsCapped ==
    Returned("neighbors") =>
        /\ Cardinality(graph.outgoing_edges) <= graph.max_neighbors
        /\ Cardinality(graph.incoming_edges) <= graph.max_neighbors
        /\ \A e \in graph.outgoing_edges :
             /\ e \in edges
             /\ e.source_node_id = graph.node_id
             /\ Matches(e, graph.relationship_types)
             /\ graph.direction \in {"outgoing", "both"}
        /\ \A e \in graph.incoming_edges :
             /\ e \in edges
             /\ e.target_node_id = graph.node_id
             /\ Matches(e, graph.relationship_types)
             /\ graph.direction \in {"incoming", "both"}
        /\ {n.id : n \in graph.neighbors} =
             {e.target_node_id : e \in graph.outgoing_edges}
               \cup {e.source_node_id : e \in graph.incoming_edges}
        /\ graph.neighbors \subseteq nodes
        /\ graph.count = Cardinality(graph.neighbors)

\* C20 witness: both directions, the cap cuts the outgoing edges, and one
\* neighbor is the far endpoint of two returned edges.
C20_Witness ==
    /\ Returned("neighbors")
    /\ graph.direction = "both"
    /\ Cardinality(OutgoingOf(graph.node_id, graph.relationship_types)) > graph.max_neighbors
    /\ graph.incoming_edges # {}
    /\ graph.count < Cardinality(graph.outgoing_edges) + Cardinality(graph.incoming_edges)

---------------------------------------------------------------------------
(* The store under its writers: crawler upserts against the node and edge *)
(* endpoints, and get_graph_stats                                         *)
(*                                                                         *)
(* An upsert and a create request are a SELECT and, after other writers   *)
(* may have run, the INSERT or UPDATE that the flush or commit issues;    *)
(* the table constraints (unique identity, foreign keys with cascade) are *)
(* enforced at that statement.  A row's id is the tick of the clock at    *)
(* its creation, so no id is ever given out twice.                        *)

MaxStoreCrawlers == 2    \* SpecStore: crawler instances writing
MaxStoreRequests == 2    \* SpecStore: requests to the node and edge endpoints

StoreCrawlers == 1..MaxStoreCrawlers

\* str(e) of what a flush or a commit raises
UniqueViolation == "IntegrityError: UniqueViolation"
ForeignKeyViolation == "IntegrityError: ForeignKeyViolation"
StaleData == "StaleDataError"

Conflict == 409
Created == 201
NoContent == 204

\* Variant of Referenced that finds no edge of the node.
Unreferenced(es, id) == {}

\* The edges deleted with node id: relationship(cascade="all, delete-orphan")
\* and ForeignKey(ondelete="CASCADE").
Referenced(es, id) == {e \in es : e.source_node_id = id \/ e.target_node_id = id}

\* ForeignKey("nodes.id") on both endpoints of an edge being inserted
EndpointsExist(ns, s, t) == (\E n \in ns : n.id = s) /\ (\E n \in ns : n.id = t)

\* A crawler starts upserting: node name, node name2, then the edge between
\* them, as the _crawl_* coroutines do.
Upsert_Begin(c) ==
    /\ runs[c].pc = "idle"
    /\ \E name \in {"a", "b"}, name2 \in {"a", "b"} :
         /\ name # name2
         /\ runs' = [runs EXCEPT ![c] =
                [@ EXCEPT !.pc = "traverse",
                          !.stack = <<[Frame("create_or_update_node", name, name2, 0, 0)
                                         EXCEPT !.pc = "select"]>>]]
    /\ api' = NoResponse
    /\ graph' = NoQuery
    /\ UNCHANGED <<jobs, nodes, edges, tasks, clock, calls, limiter, fetchers>>

\* The entity the frame's create_or_update_node call is about: name first,
\* name2 once the first node is there.
UpsertName(f) == IF f.node = 0 THEN f.name ELSE f.name2

\* create_or_update_node up to the result of its SELECT
Upsert_NodeSelect(c) ==
    /\ At(c, "create_or_update_node", "select")
    /\ LET f == Top(c)
           key == <<runs[c].source, "user", UpsertName(f)>>
       IN  runs' = [runs EXCEPT ![c] =
              StepRun(@, SetTop(@.stack, [f EXCEPT !.pc = "flush",
                                                   !.picked = NodesAt(nodes, key)]),
                      @.dn, @.de, "none", FALSE)]
    /\ api' = NoResponse
    /\ graph' = NoQuery
    /\ UNCHANGED <<jobs, nodes, edges, tasks, clock, calls, limiter, fetchers>>

\* The frame once create_or_update_node has returned the node id.
NodeDone(f, id) ==
    IF f.node = 0 THEN [f EXCEPT !.pc = "select", !.node = id, !.picked = {}]
    ELSE [f EXCEPT !.fn = "create_edge", !.pc = "select", !.curnode = id, !.picked = {}]

\* create_or_update_node from the SELECT's result to the flush: the row
\* read is updated, or a new row inserted.
Upsert_NodeFlush(c) ==
    /\ At(c, "create_or_update_node", "flush")
    /\ LET run == runs[c]
           f == Top(c)
           key == <<run.source, "user", UpsertName(f)>>
       IN  IF f.picked # {}
           THEN LET old == CHOOSE n \in f.picked : TRUE
                    row == UpdatedNode(old, UpsertName(f), RecordMeta)
                IN  IF \E n \in nodes : n.id = old.id
                    THEN /\ nodes' = {n \in nodes : n.id # old.id} \cup {row}
                         /\ runs' = [runs EXCEPT ![c] =
                               StepRun(run, SetTop(run.stack, NodeDone(f, old.id)),
                                       run.dn \cup {key}, run.de, "upsert", FALSE)]
                         /\ clock' = clock
                    ELSE /\ runs' = [runs EXCEPT ![c] = RaiseRun(run, StaleData, "upsert")]
                         /\ UNCHANGED <<nodes, clock>>
           ELSE IF NodesAt(nodes, key) # {}
           THEN /\ runs' = [runs EXCEPT ![c] = RaiseRun(run, UniqueViolation, "upsert")]
                /\ UNCHANGED <<nodes, clock>>
           ELSE /\ clock' = clock + 1
                /\ nodes' = nodes \cup
                      {[NewNode(nodes, run.source, "user", UpsertName(f), UpsertName(f),
                                RecordMeta) EXCEPT !.id = clock']}
                /\ runs' = [runs EXCEPT ![c] =
                      StepRun(run, SetTop(run.stack, NodeDone(f, clock')),
                              run.dn \cup {key}, run.de, "upsert", FALSE)]
    /\ api' = NoResponse
    /\ graph' = NoQuery
    /\ UNCHANGED <<jobs, edges, tasks, calls, limiter, fetchers>>

\* create_edge up to the result of its SELECT
Upsert_EdgeSelect(c) ==
    /\ At(c, "create_edge", "select")
    /\ LET f == Top(c)
           key == <<f.node, f.curnode, "follows">>
       IN  runs' = [runs EXCEPT ![c] =
              StepRun(@, SetTop(@.stack, [f EXCEPT !.pc = "flush",
                                                   !.picked = EdgesAt(edges, key)]),
                      @.dn, @.de, "none", FALSE)]
    /\ api' = NoResponse
    /\ graph' = NoQuery
    /\ UNCHANGED <<jobs, nodes, edges, tasks, clock, calls, limiter, fetchers>>

\* create_edge from the SELECT's result to the flush
Upsert_EdgeFlush(c) ==
    /\ At(c, "create_edge", "flush")
    /\ LET run == runs[c]
           f == Top(c)
           key == <<f.node, f.curnode, "follows">>
           done == StepRun(run, Pop(run.stack), run.dn, run.de \cup {key}, "upsert", FALSE)
       IN  IF f.picked # {}
           THEN LET old == CHOOSE e \in f.picked : TRUE
                IN  IF \E e \in edges : e.id = old.id
                    THEN /\ edges' = {e \in edges : e.id # old.id}
                                       \cup {UpdatedEdge(old, RatOne, EmptyMeta)}
                         /\ runs' = [runs EXCEPT ![c] = done]
                         /\ clock' = clock
                    ELSE /\ runs' = [runs EXCEPT ![c] = RaiseRun(run, StaleData, "upsert")]
                         /\ UNCHANGED <<edges, clock>>
           ELSE IF ~EndpointsExist(nodes, f.node, f.curnode)
           THEN /\ runs' = [runs EXCEPT ![c] = RaiseRun(run, ForeignKeyViolation, "upsert")]
                /\ UNCHANGED <<edges, clock>>
           ELSE IF EdgesAt(edges, key) # {}
           THEN /\ runs' = [runs EXCEPT ![c] = RaiseRun(run, UniqueViolation, "upsert")]
                /\ UNCHANGED <<edges, clock>>
           ELSE /\ clock' = clock + 1
                /\ edges' = edges \cup
                      {[NewEdge(edges, f.node, f.curnode, "follows", RatOne, EmptyMeta)
                          EXCEPT !.id = clock']}
                /\ runs' = [runs EXCEPT ![c] = done]
    /\ api' = NoResponse
    /\ graph' = NoQuery
    /\ UNCHANGED <<jobs, nodes, tasks, calls, limiter, fetchers>>

\* A request to the node or edge endpoints, in progress or answered.
Request(op, pc, entity_id, s, t, code) ==
    [op |-> op, pc |-> pc, entity_id |-> entity_id, source_node_id |-> s,
     target_node_id |-> t, code |-> code]

\* The request is answered: its record keeps the endpoint and the status.
Answered(op, code) == Request(op, "done", "", 0, 0, code)

Responded_(i, code) == [calls EXCEPT ![i] = Answered(@.op, code)]

\* Ids a request may name: the stored nodes' and one no node has (0).
NodeIdArgs == {n.id : n \in nodes} \cup {0}

\* POST /nodes up to the result of its SELECT: 409, or on to the insert
create_node_check ==
    /\ Len(calls) < MaxStoreRequests
    /\ \E entity_id \in {"a", "b"} :
         LET existing == NodesAt(nodes, <<"reddit", "user", entity_id>>)
         IN  IF existing # {}
             THEN /\ calls' = Append(calls, Answered("create_node", Conflict))
                  /\ api' = [op |-> "create_node", job |-> 0, code |-> Conflict]
             ELSE /\ calls' = Append(calls, Request("create_node", "checked", entity_id, 0, 0, 0))
                  /\ api' = NoResponse
    /\ graph' = NoQuery
    /\ UNCHANGED <<jobs, nodes, edges, runs, tasks, clock, limiter, fetchers>>

\* POST /nodes: db.add(node); await db.commit()
create_node_commit(i) ==
    /\ calls[i].op = "create_node"
    /\ calls[i].pc = "checked"
    /\ IF NodesAt(nodes, <<"reddit", "user", calls[i].entity_id>>) # {}
       THEN /\ calls' = Responded_(i, ServerError)
            /\ api' = [op |-> "create_node", job |-> 0, code |-> ServerError]
            /\ UNCHANGED <<nodes, clock>>
       ELSE /\ clock' = clock + 1
            /\ nodes' = nodes \cup
                  {[NewNode(nodes, "reddit", "user", calls[i].entity_id,
                            calls[i].entity_id, EmptyMeta) EXCEPT !.id = clock']}
            /\ calls' = Responded_(i, Created)
            /\ api' = [op |-> "create_node", job |-> 0, code |-> Created]
    /\ graph' = NoQuery
    /\ UNCHANGED <<jobs, edges, runs, tasks, limiter, fetchers>>

\* POST /edges up to the results of its three SELECTs: 404, 409, or on to
\* the insert
create_edge_validate ==
    /\ Len(calls) < MaxStoreRequests
    /\ \E s \in NodeIdArgs, t \in NodeIdArgs :
         LET code == IF ~(\E n \in nodes : n.id = s) THEN NotFound
                     ELSE IF ~(\E n \in nodes : n.id = t) THEN NotFound
                     ELSE IF EdgesAt(edges, <<s, t, "follows">>) # {} THEN Conflict
                     ELSE 0
         IN  /\ calls' = Append(calls, IF code = 0
                                       THEN Request("create_edge", "checked", "", s, t, 0)
                                       ELSE Answered("create_edge", code))
             /\ api' = IF code = 0 THEN NoResponse
                       ELSE [op |-> "create_edge", job |-> 0, code |-> code]
    /\ graph' = NoQuery
    /\ UNCHANGED <<jobs, nodes, edges, runs, tasks, clock, limiter, fetchers>>

\* POST /edges: db.add(edge); await db.commit()
create_edge_commit(i) ==
    /\ calls[i].op = "create_edge"
    /\ calls[i].pc = "checked"
    /\ LET s == calls[i].source_node_id
           t == calls[i].target_node_id
       IN  IF ~EndpointsExist(nodes, s, t) \/ EdgesAt(edges, <<s, t, "follows">>) # {}
           THEN /\ calls' = Responded_(i, ServerError)
                /\ api' = [op |-> "create_edge", job |-> 0, code |-> ServerError]
                /\ UNCHANGED <<edges, clock>>
           ELSE /\ clock' = clock + 1
                /\ edges' = edges \cup
                      {[NewEdge(edges, s, t, "follows", RatOne, EmptyMeta)
                          EXCEPT !.id = clock']}
                /\ calls' = Responded_(i, Created)
                /\ api' = [op |-> "create_edge", job |-> 0, code |-> Created]
    /\ graph' = NoQuery
    /\ UNCHANGED <<jobs, nodes, runs, tasks, limiter, fetchers>>

\* DELETE /nodes/{node_id}
delete_node ==
    /\ Len(calls) < MaxStoreRequests
    /\ \E node_id \in NodeIdArgs :
         IF ~(\E n \in nodes : n.id = node_id)
         THEN /\ calls' = Append(calls, Answered("delete_node", NotFound))
              /\ api' = [op |-> "delete_node", job |-> 0, code |-> NotFound]
              /\ UNCHANGED <<nodes, edges>>
         ELSE /\ nodes' = {n \in nodes : n.id # node_id}
              /\ edges' = edges \ Referenced(edges, node_id)
              /\ calls' = Append(calls, Answered("delete_node", NoContent))
              /\ api' = [op |-> "delete_node", job |-> 0, code |-> NoContent]
    /\ graph' = NoQuery
    /\ UNCHANGED <<jobs, runs, tasks, clock, limiter, fetchers>>

\* DELETE /edges/{edge_id}
delete_edge ==
    /\ Len(calls) < MaxStoreRequests
    /\ \E edge_id \in {e.id : e \in edges} \cup {0} :
         IF ~(\E e \in edges : e.id = edge_id)
         THEN /\ calls' = Append(calls, Answered("delete_edge", NotFound))
              /\ api' = [op |-> "delete_edge", job |-> 0, code |-> NotFound]
              /\ UNCHANGED edges
         ELSE /\ edges' = {e \in edges : e.id # edge_id}
              /\ calls' = Append(calls, Answered("delete_edge", NoContent))
              /\ api' = [op |-> "delete_edge", job |-> 0, code |-> NoContent]
    /\ graph' = NoQuery
    /\ UNCHANGED <<jobs, nodes, runs, tasks, clock, limiter, fetchers>>

\* A float quotient of exact rationals; dividing by zero raises.
ZeroDivision == [n |-> 0, d |-> 0]

RatDiv(a, b) == IF b.n = 0 THEN ZeroDivision ELSE Rat(a.n * b.d, a.d * b.n)

\* Variant of HasPairs that lets zero through.
HasNoNegativePairs(max_possible_edges) == max_possible_edges.n >= 0

\* ... if max_possible_edges > 0 else 0
HasPairs(max_possible_edges) == max_possible_edges.n > 0

\* avg_degree = (2 * total_edges / total_nodes) if total_nodes > 0 else 0
AverageDegree(total_nodes, total_edges) ==
    IF total_nodes > 0 THEN RatDiv(Rat(2 * total_edges, 1), Rat(total_nodes, 1)) ELSE RatZero

\* max_possible_edges = total_nodes * (total_nodes - 1) / 2
MaxPossibleEdges(total_nodes) == Rat(total_nodes * (total_nodes - 1), 2)

\* density = (total_edges / max_possible_edges) if max_possible_edges > 0 else 0
Density(total_nodes, total_edges) ==
    IF HasPairs(MaxPossibleEdges(total_nodes))
    THEN RatDiv(Rat(total_edges, 1), MaxPossibleEdges(total_nodes))
    ELSE RatZero

\* GET /graph/stats (the counts by type and source are left out)
get_graph_stats ==
    /\ LET total_nodes == Cardinality(nodes)
           total_edges == Cardinality(edges)
           avg_degree == AverageDegree(total_nodes, total_edges)
           density == Density(total_nodes, total_edges)
       IN  graph' = [op |-> "stats", pc |-> "done",
                     status |-> IF ZeroDivision \in {avg_degree, density}
                                THEN ServerError ELSE Ok,
                     total_nodes |-> total_nodes, total_edges |-> total_edges,
                     average_degree |-> avg_degree, density |-> density,
                     connected_components |-> total_nodes]
    /\ api' = NoResponse
    /\ UNCHANGED <<jobs, nodes, edges, runs, tasks, clock, calls, limiter, fetchers>>

\* An empty store, crawler instances of one source and no request yet.
InitStore ==
    /\ jobs = << >>
    /\ nodes = {}
    /\ edges = {}
    /\ runs = [c \in StoreCrawlers |-> [IdleRun EXCEPT !.source = "reddit"]]
    /\ tasks = << >>
    /\ api = NoResponse
    /\ clock = 0
    /\ calls = << >>
    /\ limiter = NoLimiter
    /\ fetchers = << >>
    /\ graph = NoQuery

\* The steps of one crawler's upserts.
UpsertStep(c) ==
    \/ Upsert_Begin(c)
    \/ Upsert_NodeSelect(c)
    \/ Upsert_NodeFlush(c)
    \/ Upsert_EdgeSelect(c)
    \/ Upsert_EdgeFlush(c)

NextStore ==
    \/ \E c \in StoreCrawlers : UpsertStep(c)
    \/ create_node_check
    \/ \E i \in 1..Len(calls) : create_node_commit(i)
    \/ create_edge_validate
    \/ \E i \in 1..Len(calls) : create_edge_commit(i)
    \/ delete_node
    \/ delete_edge
    \/ get_graph_stats

SpecStore == InitStore /\ [][NextStore]_vars

\* The nodes connected to the nodes S by edges taken in either direction.
RECURSIVE Connected(_)
Connected(S) ==
    LET T == S \cup {e.target_node_id : e \in {x \in edges : x.source_node_id \in S}}
               \cup {e.source_node_id : e \in {x \in edges : x.target_node_id \in S}}
    IN  IF T = S THEN S ELSE Connected(T)

\* The number of connected components of the stored graph.
Components == Cardinality({Connected({n.id}) : n \in nodes})

\* Some stored nodes share an identity triple, or some stored edges do.
Duplicates ==
    \/ \E m, n \in nodes : m # n /\ NodeKey(m) = NodeKey(n)
    \/ \E d, e \in edges : d # e /\ EdgeKey(d) = EdgeKey(e)

---------------------------------------------------------------------------
(* Properties of the store *)

\* C21: GraphStats answers average_degree = 2|E|/|V| (0 without nodes) and
\* density = |E| / (|V|(|V|-1)/2) (0 with at most one node), without a
\* division error, for every stored graph.
C21_StatsFormulas ==
    graph.op = "stats" =>
        LET V == Cardinality(nodes)
            E == Cardinality(edges)
        IN  /\ graph.status = Ok
            /\ graph.total_nodes = V
            /\ graph.total_edges = E
            /\ graph.average_degree.d > 0
            /\ graph.density.d > 0
            /\ IF V > 0 THEN graph.average_degree.n * V = 2 * E * graph.average_degree.d
               ELSE graph.average_degree = RatZero
            /\ IF V > 1 THEN graph.density.n * V * (V - 1) = 2 * E * graph.density.d
               ELSE graph.density = RatZero

\* C21 witness: the statistics of one node with a self-loop (no pair of
\* nodes, one edge).
C21_Witness ==
    /\ graph.op = "stats"
    /\ graph.total_nodes = 1
    /\ graph.total_edges = 1

\* C22: the connected_components of GraphStats is the number of connected
\* components of the stored graph, edges taken as undirected.
C22_ComponentsCounted ==
    graph.op = "stats" => graph.connected_components = Components

\* C23: both endpoints of every stored edge are stored nodes, whatever the
\* creations, upserts and deletions and however they interleave.
C23_EndpointsStored ==
    \A e \in edges : EndpointsExist(nodes, e.source_node_id, e.target_node_id)

\* C23 witness: a node was deleted under a crawler that held it, and the
\* crawler's edge to it was refused.
C23_Witness ==
    /\ \E i \in 1..Len(calls) : calls[i].op = "delete_node" /\ calls[i].code = NoContent
    /\ \E c \in StoreCrawlers : runs[c].exc = ForeignKeyViolation

\* C24: two writers racing on one identity triple leave one record and
\* neither of them fails.
C24_RaceResolves ==
    /\ ~Duplicates
    /\ \A c \in StoreCrawlers : runs[c].exc # UniqueViolation

---------------------------------------------------------------------------
(* Properties of a crawl run and its job *)

\* C25: the discovered-node and discovered-edge sets are scoped to one crawl
\* run: once crawl() has returned or raised they are empty again.
C25_SetsRunScoped ==
    \A r \in Runs :
        runs[r].pc \in {"returned", "raised"} => runs[r].dn = {} /\ runs[r].de = {}

\* C26: a crawl run that finishes without an exception leaves its job
\* COMPLETED with entity_count the number of distinct node identity keys it
\* upserted and edge_count the number of distinct edge identity keys it
\* upserted; the keys the crawlers recorded are exactly those of the rows
\* stored.
C26_CountsOnSuccess ==
    /\ {NodeKey(n) : n \in nodes} = UNION {runs[r].dn : r \in Runs}
    /\ {EdgeKey(e) : e \in edges} = UNION {runs[r].de : r \in Runs}
    /\ \A r \in Runs :
          runs[r].pc \in {"commit", "returned"} =>
              /\ jobs[runs[r].job].status = COMPLETED
              /\ jobs[runs[r].job].entity_count = Cardinality(runs[r].dn)
              /\ jobs[runs[r].job].edge_count = Cardinality(runs[r].de)

\* C26 witness: a run returned after upserting two nodes and an edge.
C26_Witness ==
    \E r \in Runs :
        /\ runs[r].pc = "returned"
        /\ jobs[runs[r].job].entity_count = 2
        /\ jobs[runs[r].job].edge_count >= 1
        /\ Cardinality(nodes) = 2

\* C27: when the adapter cannot resolve the start entity the run creates no
\* node and no edge, fetches nothing more, and its job reaches COMPLETED with
\* entity_count = 0, edge_count = 0 and no error_message.
C27_SeedMissing ==
    \A r \in Runs :
        /\ runs[r].seed # "refetched"
        /\ runs[r].seed = "missing" =>
              /\ runs[r].dn = {} /\ runs[r].de = {}
              /\ runs[r].exc = Null
              /\ runs[r].pc \in {"complete", "commit", "returned"}
              /\ runs[r].pc \in {"commit", "returned"} =>
                    /\ jobs[runs[r].job].status = COMPLETED
                    /\ jobs[runs[r].job].entity_count = 0
                    /\ jobs[runs[r].job].edge_count = 0
                    /\ jobs[runs[r].job].error_message = Null

\* C27 witness: crawl() returned after a start entity that was not found,
\* into a store that holds nothing.
C27_Witness ==
    \E r \in Runs :
        /\ runs[r].seed = "missing"
        /\ ~runs[r].fetch_failed
        /\ runs[r].pc = "returned"
        /\ jobs[runs[r].job].status = COMPLETED
        /\ nodes = {}

\* C28: a crawl started through the trigger endpoint has exactly one
\* CrawlJob record, and the record returned to the caller is the one the
\* engine moves to RUNNING and to its terminal state.
C28_OneJobPerInvocation ==
    /\ Len(jobs) <= Len(tasks)
    /\ \A t \in 1..Len(tasks) :
          tasks[t].state = "running" => runs[tasks[t].run].job = tasks[t].job

\* The steps C29 allows for the status of the jobs: a job is created
\* PENDING; unless the step is a cancel request or the job was cancelled
\* before, its status stays or moves PENDING -> RUNNING, RUNNING -> COMPLETED
\* or RUNNING -> FAILED, and a job that is RUNNING has its started_at.
EngineTransition ==
    \A j \in 1..Len(jobs') :
        IF j > Len(jobs)
        THEN jobs'[j].status = PENDING /\ jobs'[j].started_at = NoTime
        ELSE \/ api'.op = "cancel"
             \/ jobs[j].status = CANCELLED
             \/ /\ jobs'[j].status # CANCELLED
                /\ \/ jobs'[j].status = jobs[j].status
                   \/ <<jobs[j].status, jobs'[j].status>> \in
                          {<<PENDING, RUNNING>>, <<RUNNING, COMPLETED>>, <<RUNNING, FAILED>>}
                /\ jobs'[j].status = RUNNING => jobs'[j].started_at # NoTime

NodeSourceKept ==
    /\ \A n \in nodes' \ nodes :
          \E r \in Runs : /\ runs'[r] # runs[r]
                          /\ n.source = runs'[r].source
                          /\ NodeKey(n) \in runs'[r].dn
    /\ \A r \in Runs : \A key \in runs'[r].dn \ runs[r].dn : key[1] = runs'[r].source

\* C30: every node a crawl run creates or updates has the source name of
\* the crawler that ran it, for every entity type and expansion path.
C30_SourceOfNodes == [][NodeSourceKept]_vars

\* C30 witness: a GitHub run has stored a user and a repository.
C30_Witness ==
    \E r \in Runs :
        /\ runs[r].source = "github"
        /\ \E m, n \in nodes :
              /\ m.entity_type = "user" /\ n.entity_type = "repository"
              /\ m.source = "github" /\ n.source = "github"
              /\ {NodeKey(m), NodeKey(n)} \subseteq runs[r].dn

---------------------------------------------------------------------------
(* Further properties of the RateLimiter *)

\* C31: the acquire() calls that return within an interval of length T are
\* at most r + r*T; here for T = 0: the calls that return at one instant
\* take at most one bucket capacity r.
C31_BurstWithinCapacity ==
    limiter.burst * TokenUnit <= Capacity(limiter.rate)

---------------------------------------------------------------------------
(* Further properties of the subgraph query *)

\* Edge e leads from x to y in a direction the query permits and passes
\* its relation filter.
Hop(e, x, y, direction, relationship_types) ==
    /\ relationship_types = {} \/ e.relationship_type \in relationship_types
    /\ \/ direction \in {"outgoing", "both"} /\ e.source_node_id = x /\ e.target_node_id = y
       \/ direction \in {"incoming", "both"} /\ e.target_node_id = x /\ e.source_node_id = y

\* The ids the stored edges join.
Endpoints == {e.source_node_id : e \in edges} \cup {e.target_node_id : e \in edges}

\* The ids reachable from the ids S by a path of at most k permitted edges.
RECURSIVE HopsWithin(_, _, _, _)
HopsWithin(S, k, direction, relationship_types) ==
    IF k = 0 THEN S
    ELSE HopsWithin(S \cup {y \in Endpoints :
                              \E x \in S, e \in edges :
                                  Hop(e, x, y, direction, relationship_types)},
                    k - 1, direction, relationship_types)

\* C32: every node the subgraph query returns is within depth permitted
\* hops of the start node (outgoing: source to target, incoming: target to
\* source, both: either; each edge passing the relation filter), every
\* queued node is within the depth it is queued with, and every returned
\* edge was met in a permitted direction at a node of depth below the
\* requested depth.
C32_WithinDepth ==
    graph.op = "query" =>
        /\ \A id \in ReturnedNodes :
              id \in HopsWithin({graph.start_node_id}, graph.depth, graph.direction,
                                graph.relationship_types)
        /\ \A i \in 1..Len(graph.queue) :
              /\ graph.queue[i][2] <= graph.depth
              /\ graph.queue[i][1] \in HopsWithin({graph.start_node_id}, graph.queue[i][2],
                                                  graph.direction, graph.relationship_types)
        /\ \A e \in graph.edges_result :
              \E x \in HopsWithin({graph.start_node_id}, graph.depth - 1, graph.direction,
                                   graph.relationship_types), y \in Endpoints :
                  Hop(e, x, y, graph.direction, graph.relationship_types)

\* C32 witness: an incoming query of depth 1 returned the start and a node
\* one hop before it, and left out an edge that arrives at that node.
C32_Witness ==
    /\ Returned("query")
    /\ graph.direction = "incoming"
    /\ graph.depth = 1
    /\ \E e \in edges :
          /\ e \notin graph.edges_result
          /\ e.target_node_id \in ReturnedNodes \ {graph.start_node_id}
          /\ e.source_node_id \notin ReturnedNodes

---------------------------------------------------------------------------
(* Further properties of the upserts *)

\* Call i repeats an earlier call of the same crawler for the same key.
Repeat(cs, i) ==
    \E j \in 1..(i - 1) : /\ cs[j].op = cs[i].op
                          /\ cs[j].crawler = cs[i].crawler
                          /\ cs[j].key = cs[i].key

\* A repeated create_or_update_node or create_edge writes nothing: the
\* stored rows are as they were.
RepeatWritesNothing ==
    [][Len(calls') > Len(calls) /\ Repeat(calls', Len(calls'))
          => nodes' = nodes /\ edges' = edges]_vars

\* C33: a create_or_update_node or create_edge repeated by a crawler for a
\* key in its discovered set makes no store access, and the repeated
\* create_edge returns no edge.
C33_RepeatIsLocal ==
    \A i \in 1..Len(calls) :
        Repeat(calls, i) =>
            /\ calls[i].selects = 0
            /\ calls[i].op = "create_edge" => calls[i].result = 0

---------------------------------------------------------------------------
(* The node update endpoint against crawl rediscoveries *)

MaxUpdates == 2    \* SpecNodes: PUT /nodes/{node_id} requests per behaviour

\* A field the request body leaves out (model_dump(exclude_unset=True)).
Unset == "<unset>"

\* Variant of PatchedNode that also writes the new name to entity_id.
PatchedNode_renamed(n, display_name, metadata) ==
    [n EXCEPT !.display_name = IF display_name # Unset THEN display_name ELSE @,
              !.entity_id = IF display_name # Unset THEN display_name ELSE @,
              !.metadata = MergeMeta(@, metadata)]

\* update_node: the fields of the body that are set, written to the row;
\* a metadata that is left out is given here as the empty dict.
PatchedNode(n, display_name, metadata) ==
    [n EXCEPT !.display_name = IF display_name # Unset THEN display_name ELSE @,
              !.metadata = MergeMeta(@, metadata)]

\* PUT /nodes/{node_id}.  A body field may be left out, null or a value:
\* "metadata": null makes {**node.metadata, **None} raise, "display_name":
\* null is refused by the NOT NULL column at commit; both answer 500 and
\* write nothing.  The status answered is the result of the call recorded.
update_node ==
    /\ Cardinality({i \in 1..Len(calls) : calls[i].op = "update_node"}) < MaxUpdates
    /\ \E node_id \in NodeIdArgs, display_name \in {Unset, Null, "c"},
          body \in {Unset, Null, "dict"}, metadata \in UpsertMetas :
         /\ body # "dict" => metadata = EmptyMeta
         /\ LET found == {n \in nodes : n.id = node_id}
                code == IF found = {} THEN NotFound
                        ELSE IF body = Null \/ display_name = Null THEN ServerError
                        ELSE Ok
            IN  /\ nodes' = IF code # Ok THEN nodes
                            ELSE {IF n.id = node_id
                                  THEN PatchedNode(n, display_name, metadata) ELSE n :
                                    n \in nodes}
                /\ calls' = Append(calls, [op |-> "update_node", crawler |-> 0,
                                           key |-> <<node_id>>, metadata |-> metadata,
                                           weight |-> RatZero, result |-> code,
                                           selects |-> 1])
    /\ UNCHANGED <<jobs, edges, runs, tasks, api, clock, limiter, fetchers, graph>>

\* Crawler instances discovering and rediscovering nodes, and update requests.
NextNodes ==
    \/ \E c \in Crawlers : UpsertNode(c)
    \/ update_node

SpecNodes == InitUpsert /\ [][NextNodes]_vars

\* Row n is row m after a write with metadata: same id and identity triple,
\* metadata the shallow merge in which the written keys override.
SameNodeMerged(m, n, metadata) ==
    /\ n.id = m.id
    /\ n.source = m.source /\ n.entity_type = m.entity_type /\ n.entity_id = m.entity_id
    /\ DOMAIN n.metadata = (DOMAIN m.metadata) \cup (DOMAIN metadata)
    /\ \A k \in DOMAIN n.metadata :
          n.metadata[k] = IF k \in DOMAIN metadata THEN metadata[k] ELSE m.metadata[k]

\* A step keeps every stored node, under its id and its identity triple;
\* a row it changes is the row merged with the metadata of the call made.
IdentityKept ==
    \A m \in nodes :
        \E n \in nodes' :
            /\ n.id = m.id
            /\ \A x \in nodes' : x.id = m.id => x = n
            /\ IF n = m THEN TRUE
               ELSE SameNodeMerged(m, n, calls'[Len(calls')].metadata)

\* C34: no operation changes a stored node's identity triple or id: a
\* rediscovery by a crawl and the node update endpoint change only
\* display_name and metadata, the metadata by shallow merge with the later
\* keys overriding.
C34_IdentityKept == [][IdentityKept]_vars

\* C34 witness: a node a crawler created was renamed and given metadata over
\* its own by the update endpoint.
C34_Witness ==
    \E n \in nodes :
        /\ n.display_name = "c"
        /\ n.entity_id # "c"
        /\ n.metadata = [k1 |-> 2, k2 |-> 1]
        /\ calls[Len(calls)].op = "update_node"
        /\ calls[Len(calls)].result = Ok

---------------------------------------------------------------------------
(* Further properties of a crawl run *)

---------------------------------------------------------------------------
(* Wikipedia crawls by depth *)

MaxWikiDepth == 3     \* SpecWiki: largest depth requested (0 is the least)
MaxWikiBudget == 3    \* SpecWiki: largest max_entities requested

\* A caller awaits WikipediaCrawler.crawl(start_entity, depth, max_entities).
CrawlWiki(r) ==
    /\ \E depth \in 0..MaxWikiDepth, max \in 1..MaxWikiBudget :
         \E start \in StartEntities("wikipedia") : Crawl(r, "wikipedia", start, depth, max)
    /\ api' = NoResponse
    /\ UNCHANGED <<nodes, edges, tasks, clock, calls, limiter, fetchers, graph>>

\* Wikipedia crawl runs, the articles linking to each other in any way.
NextWiki ==
    \/ \E r \in Runs : CrawlWiki(r)
    \/ \E r \in Runs : Lifecycle(r)
    \/ \E r \in Runs : WikiStep(r)
    \/ \E r \in Runs : StoreError(r)

SpecWiki == Init /\ [][NextWiki]_vars

\* A crawl() that can take a step takes one.
SpecWikiFair ==
    SpecWiki /\ \A r \in Runs : WF_vars(Lifecycle(r) \/ WikiStep(r))

\* The ids of the node of the start article of run r.
SeedIds(r) ==
    {n.id : n \in NodesAt(nodes, <<"wikipedia", "article", PageId(runs[r].start)>>)}

\* The article ids at most k links_to edges away from the start article.
ArticlesWithin(r, k) == HopsWithin(SeedIds(r), k, "outgoing", {"links_to"})

\* The linked article whose node is written and whose links_to edge is the
\* next statement.
LinkPending(r) ==
    IF At(r, "wikipedia._crawl_article", "linkedge") THEN {Top(r).curnode} ELSE {}

\* While crawl() has raised nothing, every article node the run has
\* discovered is within depth links of its start article; every in_category
\* edge the run has discovered leaves an article within depth - 1 links of it.
WikiDepthKept ==
    \A r \in Runs :
        runs[r].source = "wikipedia" =>
            /\ runs[r].pc \in {"traverse", "complete", "commit", "returned"} =>
                  \A n \in nodes :
                      /\ n.entity_type = "article"
                      /\ NodeKey(n) \in runs[r].dn
                      /\ n.id \notin LinkPending(r)
                      => n.id \in ArticlesWithin(r, runs[r].depth)
            /\ \A e \in edges :
                  e.relationship_type = "in_category" /\ EdgeKey(e) \in runs[r].de =>
                      /\ runs[r].depth >= 1
                      /\ e.source_node_id \in ArticlesWithin(r, runs[r].depth - 1)

\* A started crawl() returns or raises.
WikiTerminates ==
    \A r \in Runs : runs[r].pc = "created" ~> runs[r].pc \in {"returned", "raised"}

\* C36: under SpecWikiFair a Wikipedia crawl of any depth d, whatever links
\* the articles return (links back to articles already visited included),
\* returns or raises; every article node it writes is at most d links_to
\* hops from the start article, and in_category edges leave only articles
\* fewer than d hops from it.
C36_DepthBoundedCrawl == []WikiDepthKept /\ WikiTerminates

\* A depth-3 crawl returned after following a link from the start article to
\* a second article and a link from that one back to the start article, and
\* the second article has a category.
C36_Witness ==
    \E r \in Runs :
        /\ runs[r].pc = "returned"
        /\ runs[r].depth = 3
        /\ \E e1 \in edges, e2 \in edges, e3 \in edges :
              /\ e1.relationship_type = "links_to"
              /\ e2.relationship_type = "links_to"
              /\ e1.source_node_id \in SeedIds(r)
              /\ e1.target_node_id \notin SeedIds(r)
              /\ e2.source_node_id = e1.target_node_id
              /\ e2.target_node_id \in SeedIds(r)
              /\ e3.relationship_type = "in_category"
              /\ e3.source_node_id = e1.target_node_id

---------------------------------------------------------------------------
(* Job fields under engine updates and cancel requests *)

\* C37: in every state of Spec (engine updates and cancel requests in any
\* order), for every job: error_message is set only if the status is FAILED,
\* completed_at is set exactly when the status is COMPLETED, FAILED or
\* CANCELLED, and started_at is set whenever the status is RUNNING,
\* COMPLETED or FAILED.
C37_JobFieldsConsistent ==
    \A j \in 1..Len(jobs) :
        /\ jobs[j].error_message # Null => jobs[j].status = FAILED
        /\ jobs[j].completed_at # NoTime <=> jobs[j].status \in {COMPLETED, FAILED, CANCELLED}
        /\ jobs[j].status \in {RUNNING, COMPLETED, FAILED} => jobs[j].started_at # NoTime

---------------------------------------------------------------------------
(* services/rate_limiter.py: the request limiter kept in Redis *)

MaxChecks == 5          \* SpecRedis: is_allowed calls per behaviour
MaxSeconds == 3         \* SpecRedis: seconds the clock advances
MaxRequestsArg == 2     \* SpecRedis: largest max_requests
MaxWindow == 2          \* SpecRedis: largest window_seconds

Identifiers == {"x", "y"}

\* A key Redis does not hold: no members, no expiry.
NoKey == [members |-> {}, expire_at |-> NoTime]

\* RateLimiter.__init__ and connect(), Redis holding no key. A member of a
\* sorted set is str(current_time) with score current_time, so a set of
\* integers stands for the sorted set.
NewRequestLimiter(max_requests, window_seconds) ==
    [max_requests |-> max_requests, window_seconds |-> window_seconds,
     redis |-> [i \in Identifiers |-> NoKey]]

\* ZREMRANGEBYSCORE key min max
ZRemRangeByScore(members, min, max) == {m \in members : ~(min <= m /\ m <= max)}

\* RateLimiter.is_allowed: the pipeline ZREMRANGEBYSCORE, ZCARD, ZADD,
\* EXPIRE on the key of the identifier, and request_count < max_req.
is_allowed(l, identifier, current_time) ==
    LET window_start == current_time - l.window_seconds
        kept == ZRemRangeByScore(l.redis[identifier].members, 0, window_start)
        request_count == Cardinality(kept)
    IN  [redis |-> [l.redis EXCEPT ![identifier] =
                        [members |-> kept \cup {current_time},
                         expire_at |-> current_time + l.window_seconds + 1]],
         result |-> request_count < l.max_requests]

\* A request is checked: await limiter.is_allowed(identifier) at
\* int(time.time()) = clock.
IsAllowed(identifier) ==
    /\ Len(calls) < MaxChecks
    /\ LET res == is_allowed(limiter, identifier, clock)
       IN  /\ limiter' = [limiter EXCEPT !.redis = res.redis]
           /\ calls' = Append(calls, [op |-> "is_allowed", identifier |-> identifier,
                                      time |-> clock, result |-> res.result])
    /\ UNCHANGED <<jobs, nodes, edges, runs, tasks, api, clock, fetchers, graph>>

\* A second passes; Redis drops the keys whose expiry is reached.
Second ==
    /\ clock < MaxSeconds
    /\ clock' = clock + 1
    /\ limiter' = [limiter EXCEPT !.redis =
            [i \in Identifiers |->
                IF @[i].expire_at # NoTime /\ @[i].expire_at <= clock' THEN NoKey ELSE @[i]]]
    /\ UNCHANGED <<jobs, nodes, edges, runs, tasks, api, calls, fetchers, graph>>

InitRedis ==
    /\ jobs = << >>
    /\ nodes = {}
    /\ edges = {}
    /\ runs = [r \in Runs |-> IdleRun]
    /\ tasks = << >>
    /\ api = NoResponse
    /\ clock = 0
    /\ calls = << >>
    /\ limiter \in {NewRequestLimiter(m, w) : m \in 1..MaxRequestsArg, w \in 1..MaxWindow}
    /\ fetchers = << >>
    /\ graph = NoQuery

NextRedis ==
    \/ \E identifier \in Identifiers : IsAllowed(identifier)
    \/ Second

\* One connected limiter, requests of two identifiers, Redis available.
SpecRedis == InitRedis /\ [][NextRedis]_vars

\* The calls for the identifier that returned True at a second of t..u.
AllowedIn(identifier, t, u) ==
    {i \in 1..Len(calls) :
        /\ calls[i].identifier = identifier
        /\ calls[i].result
        /\ t <= calls[i].time /\ calls[i].time <= u}

\* An is_allowed call leaves the keys of the other identifiers as they are.
OtherKeysUntouched ==
    [][\A i \in Identifiers :
          Len(calls') > Len(calls) /\ calls'[Len(calls')].identifier # i =>
              limiter'.redis[i] = limiter.redis[i]]_vars

\* C38: for each identifier, among the is_allowed calls of any window of
\* window_seconds seconds at most max_requests returned True, calls within
\* one second included.
C38_WindowLimit ==
    \A identifier \in Identifiers, t \in 0..clock :
        Cardinality(AllowedIn(identifier, t, t + limiter.window_seconds - 1))
            <= limiter.max_requests

---------------------------------------------------------------------------
(* The start node of a subgraph query *)

\* C39: a subgraph query on a stored start node returns the start node in
\* its node list, for every max_nodes >= 1, depth and direction.
C39_StartReturned ==
    Returned("query") => graph.start_node_id \in ReturnedNodes

\* For max_nodes >= 2 the start node is returned, and it is returned first.
StartReturnedAboveOne ==
    Returned("query") /\ graph.max_nodes >= 2 =>
        /\ graph.nodes_result # << >>
        /\ graph.nodes_result[1] = graph.start_node_id

---------------------------------------------------------------------------
(* A subgraph traversal while the store is written *)

MaxConcurrentWrites == 1    \* SpecTraverse: writes of other requests and crawlers

\* While the query runs, DELETE /nodes/{node_id} of another request commits:
\* the node's row and, by the cascade, its edges are gone.
Delete_Concurrent ==
    /\ graph.op = "query" /\ graph.pc = "loop"
    /\ Len(calls) < MaxConcurrentWrites
    /\ \E node_id \in {n.id : n \in nodes} :
         /\ nodes' = {n \in nodes : n.id # node_id}
         /\ edges' = edges \ Referenced(edges, node_id)
         /\ calls' = Append(calls, [op |-> "delete_node", key |-> <<node_id>>])
    /\ UNCHANGED <<jobs, runs, tasks, api, clock, limiter, fetchers, graph>>

\* While the query runs, a crawler's create_edge inserts an edge between two
\* stored nodes.
Write_Concurrent ==
    /\ graph.op = "query" /\ graph.pc = "loop"
    /\ Len(calls) < MaxConcurrentWrites
    /\ \E e \in GraphEdges :
         /\ EdgesAt(edges, EdgeKey(e)) = {}
         /\ \A x \in edges : x.id # e.id
         /\ EndpointsExist(nodes, e.source_node_id, e.target_node_id)
         /\ edges' = edges \cup {e}
         /\ calls' = Append(calls, [op |-> "create_edge", key |-> EdgeKey(e)])
    /\ UNCHANGED <<jobs, nodes, runs, tasks, api, clock, limiter, fetchers, graph>>

NextTraverse ==
    \/ Query_Call
    \/ Query_Step
    \/ Delete_Concurrent
    \/ Write_Concurrent

\* One subgraph query; each of its statements reads what is committed.
SpecTraverse == InitGraph /\ [][NextTraverse]_vars

\* C40: a subgraph traversal that runs while nodes are deleted and edges are
\* written is answered with a result (200, or 404 for a start node that is
\* not stored), never with an unhandled error.
C40_TraversalCompletes ==
    Responded("query") => graph.status \in {Ok, NotFound}

===========================================================================
